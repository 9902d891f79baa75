------------------------- MODULE PhoneServiceProofs -------------------------
(***************************************************************************)
(* The safety properties of ServiceWorkflow and of the service tab of the  *)
(* phone, for any requests, technicians and bounds.                        *)
(*                                                                         *)
(* The workflow's properties are inductive together with Ledger, which     *)
(* says what a state implies about the quote, the history and the          *)
(* provider's side.  The registration's need to know where every photo is  *)
(* and which operation the screen follows (RegInvariant).  What the phone  *)
(* says of a payment rests on the workflow's invariant: its steps are      *)
(* steps of the workflow, under which a payment made stays made            *)
(* (TrackInvariant).                                                       *)
(*                                                                         *)
(* A draft's submission rests on who may write it and where its answers    *)
(* are (IntakeInvariant): one draft is written at a time, a submission is  *)
(* on its way once, and nobody has a draft unlocked from then on.          *)
(***************************************************************************)
EXTENDS PhoneService, FiniteSetTheorems, TLAPS

BeforeRepair ==
  States \ {"repair_in_progress", "ready_for_return", "completed", "cancelled"}

Ledger ==
  /\ \A r \in Requests :
       /\ state[r] = "awaiting_additional_payment" => quote[r] = "accepted"
       /\ state[r] # "absent" => state[r] \in history[r]
       /\ state[r] \in BeforeRepair => "repair_in_progress" \notin history[r]
  /\ \A p \in Payments :
       /\ payment[p] = "none" => charge[p] = "none"
       /\ <<p, "confirmed">> \in events => charge[p] = "captured"

IInv ==
  /\ TypeOK
  /\ PaymentsAccounted
  /\ WorkWasPaid
  /\ UnacceptedIsFree
  /\ RecordsMatchState
  /\ Ledger

-----------------------------------------------------------------------------
(***************************************************************************)
(* The table of transitions, read by action.                               *)
(***************************************************************************)
LEMMA Cancelling ==
  ASSUME NEW r \in Requests, NEW actor \in {"customer", "admin"},
         Transition(r, "cancel", actor)
  PROVE  /\ state[r] \in {"awaiting_intake_review", "awaiting_diagnostic_payment",
                          "awaiting_additional_payment"}
         /\ Reaches(r, "cancelled")
  BY DEF Transition, TRANSITIONS

LEMMA Staffing ==
  ASSUME NEW r \in Requests, NEW action \in OperationalActions,
         NEW actor \in {"admin", "technician"}, Transition(r, action, actor)
  PROVE  \/ state[r] = "scheduled" /\ Reaches(r, "received")
         \/ state[r] = "received" /\ Reaches(r, "diagnosing")
         \/ state[r] = "repair_in_progress" /\ Reaches(r, "ready_for_return")
         \/ state[r] = "ready_for_return" /\ Reaches(r, "completed")
  BY DEF Transition, TRANSITIONS, OperationalActions

LEMMA Confirming ==
  ASSUME NEW p \in Payments, Transition(p[1], p[2], "system")
  PROVE  \/ /\ p[2] = "diagnostic" /\ state[p[1]] = "awaiting_diagnostic_payment"
            /\ Reaches(p[1], "awaiting_admin_review")
         \/ /\ p[2] = "additional" /\ state[p[1]] = "awaiting_additional_payment"
            /\ Reaches(p[1], "repair_in_progress")
  BY DEF Transition, TRANSITIONS, Payments

-----------------------------------------------------------------------------
LEMMA Initially == Init => IInv
  BY DEF Init, IInv, TypeOK, PaymentsAccounted, Advanced, WorkWasPaid, UnacceptedIsFree,
     RecordsMatchState, Ledger, Payments, Diagnostic, Additional, States, Assignable,
     BeforeRepair

LEMMA CancelKeeps ==
  ASSUME IInv, NEW r \in Requests, NEW actor \in {"customer", "admin"},
         Transition(r, "cancel", actor),
         UNCHANGED <<technician, available, quote, money>>
  PROVE  IInv'
<1>1. /\ state[r] \in {"awaiting_intake_review", "awaiting_diagnostic_payment",
                       "awaiting_additional_payment"}
      /\ Reaches(r, "cancelled")
  BY Cancelling
<1>2. TypeOK'
  BY <1>1 DEF IInv, TypeOK, Reaches, States, money
<1>3. PaymentsAccounted'
  BY <1>1 DEF IInv, TypeOK, PaymentsAccounted, Advanced, Payments, Reaches, money
<1>4. WorkWasPaid'
  BY <1>1 DEF IInv, TypeOK, WorkWasPaid, Reaches, money, Diagnostic, Additional
<1>5. UnacceptedIsFree'
  BY <1>1 DEF IInv, UnacceptedIsFree, money, Additional
<1>6. RecordsMatchState'
  BY <1>1 DEF IInv, TypeOK, RecordsMatchState, Reaches, Assignable
<1>7. Ledger'
  BY <1>1 DEF IInv, TypeOK, Ledger, Reaches, money, BeforeRepair
<1> QED
  BY <1>2, <1>3, <1>4, <1>5, <1>6, <1>7 DEF IInv

LEMMA CreateKeeps ==
  ASSUME IInv, NEW r \in Requests, Create(r)
  PROVE  IInv'
<1>1. TypeOK'
  BY DEF IInv, TypeOK, States, money, Create, Reaches
<1>2. PaymentsAccounted'
  BY DEF IInv, TypeOK, PaymentsAccounted, Advanced, Payments, money, Create, Reaches
<1>3. WorkWasPaid'
  BY DEF IInv, TypeOK, WorkWasPaid, Payments, Diagnostic, Additional, money, Create,
      Reaches
<1>4. UnacceptedIsFree'
  BY DEF IInv, TypeOK, UnacceptedIsFree, Payments, Additional, money, Create, Reaches
<1>5. RecordsMatchState'
  BY DEF IInv, TypeOK, RecordsMatchState, Ledger, Assignable, money, Create, Reaches
<1>6. Ledger'
  BY DEF IInv, TypeOK, RecordsMatchState, Ledger, Payments, BeforeRepair, States,
      Assignable, money, Create, Reaches
<1> QED
  BY <1>1, <1>2, <1>3, <1>4, <1>5, <1>6 DEF IInv

LEMMA OpeningKeeps ==
  ASSUME IInv, NEW p \in Payments, OpensPayment(p),
         p[2] = "additional" => quote[p[1]] = "accepted"
  PROVE  IInv'
<1>1. /\ payment[p] = "none" /\ payment' = [payment EXCEPT ![p] = "pending"]
      /\ charge[p] = "none" /\ charge' = [charge EXCEPT ![p] = "open"]
      /\ UNCHANGED <<state, history, technician, available, quote, events, ignored>>
  BY DEF OpensPayment, IInv, Ledger
<1>2. \A q \in Payments : payment'[q] = "confirmed" <=> payment[q] = "confirmed"
  BY <1>1 DEF IInv, TypeOK
<1>3. \A q \in Payments : charge[q] = "captured" => charge'[q] = "captured"
  BY <1>1 DEF IInv, TypeOK
<1>4. \A r \in Requests : Diagnostic(r) \in Payments /\ Additional(r) \in Payments
  BY DEF Diagnostic, Additional, Payments
<1>5. TypeOK'
  BY <1>1 DEF IInv, TypeOK, States, money
<1>6. PaymentsAccounted'
  BY <1>1, <1>2, <1>3 DEF IInv, PaymentsAccounted, Advanced
<1>7. WorkWasPaid'
  BY <1>1, <1>2, <1>4 DEF IInv, WorkWasPaid
<1>8. UnacceptedIsFree'
  BY <1>1 DEF IInv, TypeOK, UnacceptedIsFree, Payments, Additional, money
<1>9. RecordsMatchState'
  BY <1>1 DEF IInv, TypeOK, RecordsMatchState, Ledger, Assignable, money
<1>10. Ledger'
  BY <1>1, <1>3 DEF IInv, TypeOK, Ledger
<1> QED
  BY <1>5, <1>6, <1>7, <1>8, <1>9, <1>10 DEF IInv

LEMMA DecideKeeps ==
  ASSUME IInv, NEW r \in Requests, DecideQuote(r)
  PROVE  IInv'
<1>1. /\ state[r] = "awaiting_additional_decision" /\ quote[r] = "pending"
      /\ \/ Reaches(r, "awaiting_additional_payment") /\ quote' = [quote EXCEPT ![r] = "accepted"]
         \/ Reaches(r, "cancelled") /\ quote' = [quote EXCEPT ![r] = "declined"]
      /\ UNCHANGED <<technician, available, money>>
  BY DEF DecideQuote, Transition, TRANSITIONS
<1>2. "repair_in_progress" \notin history[r]
  BY <1>1 DEF IInv, Ledger, BeforeRepair, States
<1>3. \A q \in Requests  :
        "repair_in_progress" \in history'[q] <=> "repair_in_progress" \in history[q]
  BY <1>1 DEF IInv, TypeOK, Reaches
<1>4. \A q \in Requests \ {r} : quote'[q] = quote[q]
  BY <1>1 DEF IInv, TypeOK
<1>5. TypeOK'
  BY <1>1 DEF IInv, TypeOK, States, money, Reaches
<1>6. PaymentsAccounted'
  BY <1>1, <1>2 DEF IInv, TypeOK, PaymentsAccounted, Advanced, Payments, money, Reaches
<1>7. WorkWasPaid'
  BY <1>1, <1>2, <1>3, <1>4 DEF IInv, WorkWasPaid, money
<1>8. UnacceptedIsFree'
  BY <1>1 DEF IInv, TypeOK, UnacceptedIsFree, Payments, Additional, money, Reaches
<1>9. RecordsMatchState'
  BY <1>1 DEF IInv, TypeOK, RecordsMatchState, Ledger, Assignable, money, Reaches
<1>10. Ledger'
  BY <1>1 DEF IInv, TypeOK, RecordsMatchState, Ledger, Payments, BeforeRepair, States,
      Assignable, money, Reaches
<1> QED
  BY <1>5, <1>6, <1>7, <1>8, <1>9, <1>10 DEF IInv

LEMMA FeeKeeps ==
  ASSUME IInv, NEW r \in Requests, SetDiagnosticFee(r)
  PROVE  IInv'
<1>1. /\ state[r] = "awaiting_intake_review" /\ Reaches(r, "awaiting_diagnostic_payment")
      /\ UNCHANGED <<technician, available, quote, money>>
  BY DEF SetDiagnosticFee, Transition, TRANSITIONS
<1>2. TypeOK'
  BY <1>1 DEF IInv, TypeOK, States, money, Reaches
<1>3. PaymentsAccounted'
  BY <1>1 DEF IInv, TypeOK, PaymentsAccounted, Advanced, Payments, money, Reaches
<1>4. WorkWasPaid'
  BY <1>1 DEF IInv, TypeOK, WorkWasPaid, Payments, Diagnostic, Additional, money,
      Reaches
<1>5. UnacceptedIsFree'
  BY <1>1 DEF IInv, TypeOK, UnacceptedIsFree, Payments, Additional, money, Reaches
<1>6. RecordsMatchState'
  BY <1>1 DEF IInv, TypeOK, RecordsMatchState, Ledger, Assignable, money, Reaches
<1>7. Ledger'
  BY <1>1 DEF IInv, TypeOK, RecordsMatchState, Ledger, Payments, BeforeRepair, States,
      Assignable, money, Reaches
<1> QED
  BY <1>2, <1>3, <1>4, <1>5, <1>6, <1>7 DEF IInv

LEMMA ScheduleKeeps ==
  ASSUME IInv, NEW r \in Requests, NEW t \in Technicians, Schedule(r, t)
  PROVE  IInv'
<1>1. /\ state[r] = "awaiting_admin_review" /\ Reaches(r, "scheduled")
      /\ technician' = [technician EXCEPT ![r] = t]
      /\ UNCHANGED <<available, quote, money>>
  BY DEF Schedule, Transition, TRANSITIONS
<1>2. payment[Diagnostic(r)] = "confirmed"
  BY <1>1 DEF IInv, Ledger, PaymentsAccounted, Advanced, Diagnostic, Payments
<1>3. TypeOK'
  BY <1>1 DEF IInv, TypeOK, States, money, Reaches
<1>4. PaymentsAccounted'
  BY <1>1 DEF IInv, TypeOK, PaymentsAccounted, Advanced, Payments, money, Reaches
<1>5. WorkWasPaid'
  BY <1>1, <1>2 DEF IInv, TypeOK, WorkWasPaid, Payments, Diagnostic, Additional, money,
      Reaches
<1>6. UnacceptedIsFree'
  BY <1>1 DEF IInv, TypeOK, UnacceptedIsFree, Payments, Additional, money, Reaches
<1>7. RecordsMatchState'
  BY <1>1, ServiceAssumption DEF IInv, TypeOK, RecordsMatchState, Ledger, Assignable,
      money, Reaches
<1>8. Ledger'
  BY <1>1 DEF IInv, TypeOK, RecordsMatchState, Ledger, Payments, BeforeRepair, States,
      Assignable, money, Reaches
<1> QED
  BY <1>3, <1>4, <1>5, <1>6, <1>7, <1>8 DEF IInv

LEMMA AssignKeeps ==
  ASSUME IInv, NEW r \in Requests, NEW t \in Technicians, Assign(r, t)
  PROVE  IInv'
<1>1. TypeOK'
  BY DEF IInv, TypeOK, States, money, Assign
<1>2. PaymentsAccounted'
  BY DEF IInv, TypeOK, PaymentsAccounted, Advanced, Payments, money, Assign
<1>3. WorkWasPaid'
  BY DEF IInv, TypeOK, WorkWasPaid, Payments, Diagnostic, Additional, money, Assign
<1>4. UnacceptedIsFree'
  BY DEF IInv, TypeOK, UnacceptedIsFree, Payments, Additional, money, Assign
<1>5. RecordsMatchState'
  BY ServiceAssumption DEF IInv, TypeOK, RecordsMatchState, Ledger, Assignable, money,
      Assign
<1>6. Ledger'
  BY DEF IInv, TypeOK, RecordsMatchState, Ledger, Payments, BeforeRepair, States,
      Assignable, money, Assign
<1> QED
  BY <1>1, <1>2, <1>3, <1>4, <1>5, <1>6 DEF IInv

LEMMA StaffingKeeps ==
  ASSUME IInv, NEW r \in Requests, NEW action \in OperationalActions,
         NEW actor \in {"admin", "technician"}, Transition(r, action, actor),
         UNCHANGED <<technician, available, quote, money>>
  PROVE  IInv'
<1>1. \/ state[r] = "scheduled" /\ Reaches(r, "received")
      \/ state[r] = "received" /\ Reaches(r, "diagnosing")
      \/ state[r] = "repair_in_progress" /\ Reaches(r, "ready_for_return")
      \/ state[r] = "ready_for_return" /\ Reaches(r, "completed")
  BY Staffing
<1>2. \A q \in Requests  :
        "repair_in_progress" \in history'[q] <=> "repair_in_progress" \in history[q]
  BY <1>1 DEF IInv, TypeOK, Reaches
<1>3. TypeOK'
  BY <1>1 DEF IInv, TypeOK, States, money, Reaches
<1>4. PaymentsAccounted'
  BY <1>1 DEF IInv, TypeOK, PaymentsAccounted, Advanced, Payments, money, Reaches
<1>5. WorkWasPaid'
  BY <1>1, <1>2 DEF IInv, WorkWasPaid, money
<1>6. UnacceptedIsFree'
  BY <1>1 DEF IInv, TypeOK, UnacceptedIsFree, Payments, Additional, money, Reaches
<1>7. RecordsMatchState'
  BY <1>1 DEF IInv, TypeOK, RecordsMatchState, Ledger, Assignable, money, Reaches
<1>8. Ledger'
  BY <1>1 DEF IInv, TypeOK, RecordsMatchState, Ledger, Payments, BeforeRepair, States,
      Assignable, money, Reaches
<1> QED
  BY <1>3, <1>4, <1>5, <1>6, <1>7, <1>8 DEF IInv

LEMMA QuoteKeeps ==
  ASSUME IInv, NEW r \in Requests, CreateQuote(r)
  PROVE  IInv'
<1>1. /\ state[r] = "diagnosing" /\ Reaches(r, "awaiting_additional_decision")
      /\ quote' = [quote EXCEPT ![r] = "pending"]
      /\ UNCHANGED <<technician, available, money>>
  BY DEF CreateQuote, Transition, TRANSITIONS
<1>2. "repair_in_progress" \notin history[r] /\ quote[r] = "none"
  BY <1>1 DEF IInv, TypeOK, RecordsMatchState, Ledger, BeforeRepair, States
<1>3. TypeOK'
  BY <1>1 DEF IInv, TypeOK, States, money, Reaches
<1>4. PaymentsAccounted'
  BY <1>1, <1>2 DEF IInv, TypeOK, PaymentsAccounted, Advanced, Payments, money, Reaches
<1>5. WorkWasPaid'
  BY <1>1, <1>2 DEF IInv, TypeOK, WorkWasPaid, Payments, Diagnostic, Additional, money,
      Reaches
<1>6. UnacceptedIsFree'
  BY <1>1, <1>2 DEF IInv, TypeOK, UnacceptedIsFree, Payments, Additional, money, Reaches
<1>7. RecordsMatchState'
  BY <1>1 DEF IInv, TypeOK, RecordsMatchState, Ledger, Assignable, money, Reaches
<1>8. Ledger'
  BY <1>1 DEF IInv, TypeOK, RecordsMatchState, Ledger, Payments, BeforeRepair, States,
      Assignable, money, Reaches
<1> QED
  BY <1>3, <1>4, <1>5, <1>6, <1>7, <1>8 DEF IInv

LEMMA FreeRepairKeeps ==
  ASSUME IInv, NEW r \in Requests, StartNoCostRepair(r)
  PROVE  IInv'
<1>1. /\ state[r] = "diagnosing" /\ Reaches(r, "repair_in_progress")
      /\ UNCHANGED <<technician, available, quote, money>>
  BY DEF StartNoCostRepair, Transition, TRANSITIONS
<1>2. quote[r] = "none"
  BY <1>1 DEF IInv, TypeOK, RecordsMatchState
<1>3. TypeOK'
  BY <1>1 DEF IInv, TypeOK, States, money, Reaches
<1>4. PaymentsAccounted'
  BY <1>1, <1>2 DEF IInv, TypeOK, PaymentsAccounted, Advanced, Payments, money, Reaches
<1>5. WorkWasPaid'
  BY <1>1, <1>2 DEF IInv, TypeOK, WorkWasPaid, Payments, Diagnostic, Additional, money,
      Reaches
<1>6. UnacceptedIsFree'
  BY <1>1 DEF IInv, TypeOK, UnacceptedIsFree, Payments, Additional, money, Reaches
<1>7. RecordsMatchState'
  BY <1>1 DEF IInv, TypeOK, RecordsMatchState, Ledger, Assignable, money, Reaches
<1>8. Ledger'
  BY <1>1 DEF IInv, TypeOK, RecordsMatchState, Ledger, Payments, BeforeRepair, States,
      Assignable, money, Reaches
<1> QED
  BY <1>3, <1>4, <1>5, <1>6, <1>7, <1>8 DEF IInv

LEMMA AccessKeeps ==
  ASSUME IInv, NEW t \in Technicians, ChangeAccess(t)
  PROVE  IInv'
<1>1. TypeOK'
  BY DEF IInv, TypeOK, States, money, ChangeAccess
<1>2. PaymentsAccounted'
  BY DEF IInv, TypeOK, PaymentsAccounted, Advanced, Payments, money, ChangeAccess
<1>3. WorkWasPaid'
  BY DEF IInv, TypeOK, WorkWasPaid, Payments, Diagnostic, Additional, money,
      ChangeAccess
<1>4. UnacceptedIsFree'
  BY DEF IInv, TypeOK, UnacceptedIsFree, Payments, Additional, money, ChangeAccess
<1>5. RecordsMatchState'
  BY DEF IInv, TypeOK, RecordsMatchState, Ledger, Assignable, money, ChangeAccess
<1>6. Ledger'
  BY DEF IInv, TypeOK, RecordsMatchState, Ledger, Payments, BeforeRepair, States,
      Assignable, money, ChangeAccess
<1> QED
  BY <1>1, <1>2, <1>3, <1>4, <1>5, <1>6 DEF IInv

LEMMA CaptureKeeps ==
  ASSUME IInv, NEW p \in Payments, Capture(p)
  PROVE  IInv'
<1>1. TypeOK'
  BY DEF IInv, TypeOK, States, money, Capture
<1>2. PaymentsAccounted'
  BY DEF IInv, TypeOK, PaymentsAccounted, Advanced, Payments, money, Ledger, Capture
<1>3. WorkWasPaid'
  BY DEF IInv, TypeOK, WorkWasPaid, Payments, Diagnostic, Additional, money, Capture
<1>4. UnacceptedIsFree'
  BY DEF IInv, TypeOK, UnacceptedIsFree, Payments, Additional, money, Capture
<1>5. RecordsMatchState'
  BY DEF IInv, TypeOK, RecordsMatchState, Ledger, Assignable, money, Capture
<1>6. Ledger'
  BY DEF IInv, TypeOK, RecordsMatchState, Ledger, Payments, BeforeRepair, States,
      Assignable, money, Capture
<1> QED
  BY <1>1, <1>2, <1>3, <1>4, <1>5, <1>6 DEF IInv

LEMMA CardDeclinedKeeps ==
  ASSUME IInv, NEW p \in Payments, CardDeclined(p)
  PROVE  IInv'
<1>1. TypeOK'
  BY DEF IInv, TypeOK, States, money, CardDeclined
<1>2. PaymentsAccounted'
  BY DEF IInv, TypeOK, PaymentsAccounted, Advanced, Payments, money, Ledger,
      CardDeclined
<1>3. WorkWasPaid'
  BY DEF IInv, TypeOK, WorkWasPaid, Payments, Diagnostic, Additional, money,
      CardDeclined
<1>4. UnacceptedIsFree'
  BY DEF IInv, TypeOK, UnacceptedIsFree, Payments, Additional, money, CardDeclined
<1>5. RecordsMatchState'
  BY DEF IInv, TypeOK, RecordsMatchState, Ledger, Assignable, money, CardDeclined
<1>6. Ledger'
  BY DEF IInv, TypeOK, RecordsMatchState, Ledger, Payments, BeforeRepair, States,
      Assignable, money, CardDeclined
<1> QED
  BY <1>1, <1>2, <1>3, <1>4, <1>5, <1>6 DEF IInv

LEMMA PaymentFailsKeeps ==
  ASSUME IInv, NEW p \in Payments, PaymentFails(p)
  PROVE  IInv'
<1>1. TypeOK'
  BY DEF IInv, TypeOK, States, money, PaymentFails
<1>2. PaymentsAccounted'
  BY DEF IInv, TypeOK, PaymentsAccounted, Advanced, Payments, money, Ledger,
      PaymentFails
<1>3. WorkWasPaid'
  BY DEF IInv, TypeOK, WorkWasPaid, Payments, Diagnostic, Additional, money,
      PaymentFails
<1>4. UnacceptedIsFree'
  BY DEF IInv, TypeOK, UnacceptedIsFree, Payments, Additional, money, PaymentFails
<1>5. RecordsMatchState'
  BY DEF IInv, TypeOK, RecordsMatchState, Ledger, Assignable, money, PaymentFails
<1>6. Ledger'
  BY DEF IInv, TypeOK, RecordsMatchState, Ledger, Payments, BeforeRepair, States,
      Assignable, money, PaymentFails
<1> QED
  BY <1>1, <1>2, <1>3, <1>4, <1>5, <1>6 DEF IInv

LEMMA ConfirmKeeps ==
  ASSUME IInv, NEW p \in Payments, PaymentConfirms(p)
  PROVE  IInv'
<1>1. \/ /\ p = Diagnostic(p[1]) /\ state[p[1]] = "awaiting_diagnostic_payment"
         /\ Reaches(p[1], "awaiting_admin_review")
      \/ /\ p = Additional(p[1]) /\ state[p[1]] = "awaiting_additional_payment"
         /\ Reaches(p[1], "repair_in_progress")
  BY Confirming DEF PaymentConfirms, Payments, Diagnostic, Additional
<1>2. /\ p[1] \in Requests
      /\ payment[p] \in {"pending", "failed"} /\ payment' = [payment EXCEPT ![p] = "confirmed"]
      /\ charge[p] = "captured"
      /\ UNCHANGED <<technician, available, quote, charge, events, ignored>>
  BY DEF PaymentConfirms, Confirms, IInv, Ledger, Payments
<1>3. state[p[1]] = "awaiting_additional_payment" => quote[p[1]] = "accepted"
  BY <1>2 DEF IInv, Ledger
<1>4. \A q \in Payments : payment[q] = "confirmed" => payment'[q] = "confirmed"
  BY <1>2 DEF IInv, TypeOK
<1>5. payment'[p] = "confirmed"
  BY <1>2 DEF IInv, TypeOK
<1>6. \A r \in Requests : Diagnostic(r) \in Payments /\ Additional(r) \in Payments
  BY DEF Diagnostic, Additional, Payments
<1>7. \A r \in Requests : "repair_in_progress" \in history'[r] /\ "repair_in_progress" \notin history[r]
        => quote[r] = "accepted" /\ p = Additional(r)
  BY <1>1, <1>2, <1>3 DEF IInv, TypeOK, Reaches
<1>8. p \notin ignored /\ ~Advanced(p)
  BY <1>2 DEF IInv, PaymentsAccounted
<1>9. \A q \in Payments : q[1] \in Requests /\ (q[1] = p[1] /\ q[2] = p[2] => q = p)
  BY DEF Payments
<1>10. \A q \in Payments : Advanced(q)' <=> Advanced(q) \/ q = p
  BY <1>1, <1>2, <1>3, <1>9 DEF IInv, TypeOK, Advanced, Reaches, Diagnostic, Additional,
      Payments
<1>11. \A q \in Payments : payment'[q] = "confirmed" <=> payment[q] = "confirmed" \/ q = p
  BY <1>2 DEF IInv, TypeOK
<1>12. TypeOK'
  BY <1>1, <1>2, <1>3 DEF IInv, TypeOK, States, money, Reaches
<1>13. PaymentsAccounted'
  BY <1>1, <1>2, <1>8, <1>10, <1>11 DEF IInv, PaymentsAccounted
<1>14. WorkWasPaid'
  BY <1>1, <1>2, <1>4, <1>5, <1>6, <1>7 DEF IInv, WorkWasPaid
<1>15. UnacceptedIsFree'
  BY <1>1, <1>2, <1>3 DEF IInv, TypeOK, UnacceptedIsFree, Payments, Additional, money,
      Reaches
<1>16. RecordsMatchState'
  BY <1>1, <1>2, <1>3 DEF IInv, TypeOK, RecordsMatchState, Ledger, Assignable, money,
      Reaches
<1>17. Ledger'
  BY <1>1, <1>2, <1>3 DEF IInv, TypeOK, RecordsMatchState, Ledger, Payments,
      BeforeRepair, States, Assignable, money, Reaches
<1> QED
  BY <1>12, <1>13, <1>14, <1>15, <1>16, <1>17 DEF IInv

LEMMA TooLateKeeps ==
  ASSUME IInv, NEW p \in Payments, PaymentConfirmsTooLate(p)
  PROVE  IInv'
<1>1. TypeOK'
  BY DEF IInv, TypeOK, States, money, PaymentConfirmsTooLate, Confirms
<1>2. PaymentsAccounted'
  BY DEF IInv, TypeOK, PaymentsAccounted, Advanced, Payments, money, Ledger,
      PaymentConfirmsTooLate, Confirms
<1>3. WorkWasPaid'
  BY DEF IInv, TypeOK, WorkWasPaid, Payments, Diagnostic, Additional, money,
      PaymentConfirmsTooLate, Confirms
<1>4. UnacceptedIsFree'
  BY DEF IInv, TypeOK, UnacceptedIsFree, Payments, Additional, money,
      PaymentConfirmsTooLate, Confirms
<1>5. RecordsMatchState'
  BY DEF IInv, TypeOK, RecordsMatchState, Ledger, Assignable, money,
      PaymentConfirmsTooLate, Confirms
<1>6. Ledger'
  BY DEF IInv, TypeOK, RecordsMatchState, Ledger, Payments, BeforeRepair, States,
      Assignable, money, PaymentConfirmsTooLate, Confirms
<1> QED
  BY <1>1, <1>2, <1>3, <1>4, <1>5, <1>6 DEF IInv

-----------------------------------------------------------------------------
LEMMA Inductive == IInv /\ [Next]_vars => IInv'
<1> SUFFICES ASSUME IInv, [Next]_vars
             PROVE  IInv'
  OBVIOUS
<1>1. CASE UNCHANGED vars
  BY <1>1 DEF vars, IInv, TypeOK, PaymentsAccounted, Advanced, WorkWasPaid, UnacceptedIsFree,
     RecordsMatchState, Ledger, Payments, Diagnostic, Additional
<1>2. ASSUME NEW r \in Requests, CustomerStep(r)
      PROVE  IInv'
  <2>1. CASE Create(r)
    BY <2>1, CreateKeeps
  <2>2. CASE Cancel(r)
    BY <2>2, CancelKeeps DEF Cancel
  <2>3. CASE PayDiagnostic(r)
    <3>1. Diagnostic(r) \in Payments /\ Diagnostic(r)[2] # "additional"
      BY DEF Diagnostic, Payments
    <3> QED
      BY <2>3, <3>1, OpeningKeeps DEF PayDiagnostic
  <2>4. CASE PayAdditional(r)
    <3>1. Additional(r) \in Payments /\ Additional(r)[1] = r
      BY DEF Additional, Payments
    <3> QED
      BY <2>4, <3>1, OpeningKeeps DEF PayAdditional
  <2>5. CASE DecideQuote(r)
    BY <2>5, DecideKeeps
  <2> QED
    BY <1>2, <2>1, <2>2, <2>3, <2>4, <2>5 DEF CustomerStep
<1>3. ASSUME NEW r \in Requests, StaffStep(r)
      PROVE  IInv'
  <2>1. CASE SetDiagnosticFee(r)
    BY <2>1, FeeKeeps
  <2>2. CASE AdminCancel(r)
    BY <2>2, CancelKeeps DEF AdminCancel
  <2>3. CASE CreateQuote(r)
    BY <2>3, QuoteKeeps
  <2>4. CASE StartNoCostRepair(r)
    BY <2>4, FreeRepairKeeps
  <2>5. ASSUME NEW t \in Technicians, Schedule(r, t) \/ Assign(r, t)
        PROVE  IInv'
    BY <2>5, ScheduleKeeps, AssignKeeps
  <2>6. ASSUME NEW action \in OperationalActions,
               AdminAction(r, action) \/ TechnicianAction(r, action)
        PROVE  IInv'
    BY <2>6, StaffingKeeps DEF AdminAction, TechnicianAction
  <2> QED
    BY <1>3, <2>1, <2>2, <2>3, <2>4, <2>5, <2>6 DEF StaffStep
<1>4. ASSUME NEW p \in Payments, ProviderStep(p)
      PROVE  IInv'
  BY <1>4, CaptureKeeps, CardDeclinedKeeps, PaymentFailsKeeps, ConfirmKeeps, TooLateKeeps
     DEF ProviderStep
<1>5. ASSUME NEW t \in Technicians, ChangeAccess(t)
      PROVE  IInv'
  BY <1>5, AccessKeeps
<1> QED
  BY <1>1, <1>2, <1>3, <1>4, <1>5 DEF Next

LEMMA Invariance == Spec => []IInv
  BY Initially, Inductive, PTL DEF Spec

-----------------------------------------------------------------------------
\* Every variable keeps the shape of its table, for any requests.
THEOREM Typing == Spec => []TypeOK
<1>1. IInv => TypeOK
  BY DEF IInv
<1> QED
  BY Invariance, <1>1, PTL

\* Money: a confirmed payment moved its request or is logged as ignored.
THEOREM MoneyIsAccounted == Spec => []PaymentsAccounted
<1>1. IInv => PaymentsAccounted
  BY DEF IInv
<1> QED
  BY Invariance, <1>1, PTL

\* No technician before the diagnostic fee, no repair before its price is paid.
THEOREM PaidWork == Spec => []WorkWasPaid
<1>1. IInv => WorkWasPaid
  BY DEF IInv
<1> QED
  BY Invariance, <1>1, PTL

\* Nothing is charged for a repair its customer has not accepted.
THEOREM OnlyAcceptedIsCharged == Spec => []UnacceptedIsFree
<1>1. IInv => UnacceptedIsFree
  BY DEF IInv
<1> QED
  BY Invariance, <1>1, PTL

\* Quote, technician and state of a request tell the same story.
THEOREM RecordsMatch == Spec => []RecordsMatchState
<1>1. IInv => RecordsMatchState
  BY DEF IInv
<1> QED
  BY Invariance, <1>1, PTL

\* Work is decided, paid for and recorded, for any requests and technicians.
THEOREM WorkAccounted == Spec => []WorkIsAccounted
<1>1. WorkWasPaid /\ RecordsMatchState => WorkIsAccounted
  BY DEF WorkIsAccounted
<1> QED
  BY <1>1, PaidWork, RecordsMatch, PTL

\* A completed or cancelled request is never touched again, by anyone.
THEOREM Final == Spec => ClosedStaysClosed
<1>1. ASSUME IInv, [Next]_vars, NEW q \in Requests, Closed(q)
      PROVE  /\ state'[q] = state[q] /\ technician'[q] = technician[q]
             /\ quote'[q] = quote[q]
  <2>1. ASSUME NEW r \in Requests, NEW action, NEW actor, Transition(r, action, actor)
        PROVE  r # q /\ state'[q] = state[q]
    BY <1>1, <2>1 DEF IInv, TypeOK, Transition, TRANSITIONS, Reaches, Closed
  <2>2. CASE UNCHANGED vars
    BY <2>2 DEF vars
  <2>3. ASSUME NEW r \in Requests, CustomerStep(r)
        PROVE  /\ state'[q] = state[q] /\ technician'[q] = technician[q]
               /\ quote'[q] = quote[q]
    <3>1. CASE Create(r)
      BY <1>1, <3>1 DEF IInv, TypeOK, Create, Reaches, Closed
    <3>2. CASE Cancel(r)
      BY <2>1, <3>2 DEF Cancel
    <3>3. CASE PayDiagnostic(r) \/ PayAdditional(r)
      BY <3>3 DEF PayDiagnostic, PayAdditional, OpensPayment
    <3>4. CASE DecideQuote(r)
      BY <1>1, <2>1, <3>4 DEF IInv, TypeOK, DecideQuote
    <3> QED
      BY <2>3, <3>1, <3>2, <3>3, <3>4 DEF CustomerStep
  <2>4. ASSUME NEW r \in Requests, StaffStep(r)
        PROVE  /\ state'[q] = state[q] /\ technician'[q] = technician[q]
               /\ quote'[q] = quote[q]
    <3>1. CASE SetDiagnosticFee(r) \/ AdminCancel(r) \/ StartNoCostRepair(r)
      BY <2>1, <3>1 DEF SetDiagnosticFee, AdminCancel, StartNoCostRepair
    <3>2. CASE CreateQuote(r)
      BY <1>1, <2>1, <3>2 DEF IInv, TypeOK, CreateQuote
    <3>3. ASSUME NEW t \in Technicians, Schedule(r, t)
          PROVE  /\ state'[q] = state[q] /\ technician'[q] = technician[q]
                 /\ quote'[q] = quote[q]
      BY <1>1, <2>1, <3>3 DEF IInv, TypeOK, Schedule
    <3>4. ASSUME NEW t \in Technicians, Assign(r, t)
          PROVE  /\ state'[q] = state[q] /\ technician'[q] = technician[q]
                 /\ quote'[q] = quote[q]
      BY <1>1, <3>4 DEF IInv, TypeOK, Assign, Assignable, Closed
    <3>5. ASSUME NEW action \in OperationalActions,
                 AdminAction(r, action) \/ TechnicianAction(r, action)
          PROVE  /\ state'[q] = state[q] /\ technician'[q] = technician[q]
                 /\ quote'[q] = quote[q]
      BY <2>1, <3>5 DEF AdminAction, TechnicianAction
    <3> QED
      BY <2>4, <3>1, <3>2, <3>3, <3>4, <3>5 DEF StaffStep
  <2>5. ASSUME NEW p \in Payments, ProviderStep(p)
        PROVE  /\ state'[q] = state[q] /\ technician'[q] = technician[q]
               /\ quote'[q] = quote[q]
    <3>1. CASE PaymentConfirms(p)
      <4>1. p[1] \in Requests
        BY DEF Payments
      <4> QED
        BY <2>1, <3>1, <4>1 DEF PaymentConfirms, Confirms
    <3>2. CASE ~PaymentConfirms(p)
      BY <2>5, <3>2 DEF ProviderStep, Capture, CardDeclined, PaymentFails,
         PaymentConfirmsTooLate, Confirms
    <3> QED
      BY <3>1, <3>2
  <2>6. ASSUME NEW t \in Technicians, ChangeAccess(t)
        PROVE  /\ state'[q] = state[q] /\ technician'[q] = technician[q]
               /\ quote'[q] = quote[q]
    BY <2>6 DEF ChangeAccess
  <2> QED
    BY <1>1, <2>2, <2>3, <2>4, <2>5, <2>6 DEF Next
<1>2. IInv /\ [Next]_vars =>
        [\A r \in Requests : Closed(r) =>
           state'[r] = state[r] /\ technician'[r] = technician[r] /\ quote'[r] = quote[r]]_vars
  BY <1>1
<1> QED
  BY Invariance, <1>2, PTL DEF Spec, ClosedStaysClosed

-----------------------------------------------------------------------------
(***************************************************************************)
(* The photo of a registration: which operation the screen follows, and    *)
(* where every uploaded photo is.                                          *)
(***************************************************************************)
Uploading == {"authorizing", "authorized", "sending", "sent", "completing", "completed"}

\* Operations are begun one after the other; only an ended one is discarded.
OpsInOrder ==
  /\ \A o \in Ops : op[o].stage = "none" <=> o > picks
  /\ \A o \in Ops : op[o].stage = "none" => ~op[o].cancelled
  /\ \A o \in Ops : op[o].stage \in {"none", "picking", "authorizing"} => media[o] = "none"
  /\ \A o \in Ops : media[o] \in {"kept", "attached"} => op[o].stage \in {"completed", "ended"}
  /\ \A o \in discards : op[o].stage = "ended"

\* The screen shows the operation it follows, which is the last one and runs.
ScreenFollows ==
  /\ current # 0 => registering /\ current <= picks /\ ~op[current].cancelled
  /\ current # 0 => /\ op[current].stage = "picking" <=> photo.status = "picking"
                    /\ op[current].stage \in Uploading <=> photo.status = "uploading"
  /\ current = 0 => photo = NoPhoto
  /\ photo.status = "done" => photo.op = current

\* While the machine is being registered its photo cannot be changed.
CreationHolds ==
  /\ registering /\ creation.stage # "idle" =>
       /\ photo.status \notin {"picking", "uploading"}
       /\ photo.status = "done" => creation.photo = photo.op
  /\ creation.stage = "created" /\ creation.photo # 0 => media[creation.photo] = "attached"

\* As long as nothing was lost, whoever uploaded a photo will tell or has told.
KeptIsKnown ==
  losses = 0 => \A o \in Ops : media[o] = "kept" =>
    op[o].stage = "completed" \/ o \in discards \/ (current = o /\ photo.status = "done")

RegInvariant ==
  /\ RegTypeOK /\ OpsInOrder /\ ScreenFollows /\ CreationHolds /\ KeptIsKnown
  /\ MachineKeepsItsPhoto

OpRows == [stage: {"none", "picking", "authorizing", "authorized", "sending", "sent", "completing",
                   "completed", "ended"}, cancelled: BOOLEAN]
PhotoRows == [status: {"idle", "picking", "uploading", "done", "error"}, op: 0 .. MaxPicks]
CreationRows == [stage: {"idle", "sent", "refused", "created"}, photo: 0 .. MaxPicks]
MediaStates == {"none", "pending", "stored", "kept", "attached", "deleted", "abandoned"}
FormFields == [brand: Brands \union {NoChoice}, brandText: Brands \union {NoChoice},
               model: Models \union {NoChoice}, modelText: Models \union {NoChoice}]

LEMMA PickNumbers ==
  /\ MaxPicks \in Nat /\ MaxEdits \in Nat /\ MaxLosses \in Nat
  /\ Ops = 1 .. MaxPicks /\ \A o \in Ops : o \in 0 .. MaxPicks /\ o # 0 /\ o \in Nat
  BY RegistrationAssumption DEF Ops

LEMMA RegRows ==
  /\ NoPhoto \in PhotoRows /\ NoCreation \in CreationRows /\ EmptyForm \in FormFields
  /\ NoPhoto.status = "idle" /\ NoPhoto.op = 0 /\ NoCreation.stage = "idle"
  BY PickNumbers DEF NoPhoto, NoCreation, EmptyForm, PhotoRows, CreationRows, FormFields

\* The type invariant in terms of the rows.
LEMMA RegTypes ==
  RegTypeOK <=>
    /\ registering \in BOOLEAN /\ form \in FormFields /\ photo \in PhotoRows
    /\ current \in 0 .. MaxPicks /\ picks \in 0 .. MaxPicks
    /\ op \in [Ops -> OpRows] /\ media \in [Ops -> MediaStates] /\ discards \subseteq Ops
    /\ creation \in CreationRows /\ machine \in [exists: BOOLEAN, photo: 0 .. MaxPicks]
    /\ edits \in 0 .. MaxEdits /\ losses \in 0 .. MaxLosses
  BY DEF RegTypeOK, FormFields, PhotoRows, OpRows, MediaStates, CreationRows

LEMMA RegStarts == RegInit => RegInvariant
<1> SUFFICES ASSUME RegInit PROVE RegInvariant
  OBVIOUS
<1>1. RegTypeOK
  <2>1. NewOp \in OpRows /\ NoMachine \in [exists: BOOLEAN, photo: 0 .. MaxPicks]
    BY PickNumbers DEF NewOp, OpRows, NoMachine
  <2> QED
    BY <2>1, PickNumbers, RegRows, RegTypes DEF RegInit, MediaStates
<1>2. OpsInOrder
  BY PickNumbers DEF RegInit, OpsInOrder, NewOp
<1>3. ScreenFollows /\ CreationHolds
  BY RegRows DEF RegInit, ScreenFollows, CreationHolds
<1>4. KeptIsKnown /\ MachineKeepsItsPhoto
  BY DEF RegInit, KeptIsKnown, MachineKeepsItsPhoto, NoMachine
<1> QED
  BY <1>1, <1>2, <1>3, <1>4 DEF RegInvariant

\* The fields of the form are nobody else's business.
LEMMA EditKeeps ==
  ASSUME RegInvariant, NEW new \in FormFields, Edit(new)
  PROVE  RegInvariant'
<1>1. /\ UNCHANGED <<registering, photo, current, picks, op, media, discards, creation,
                     machine, losses>>
      /\ form' = new /\ edits' \in 0 .. MaxEdits
  BY PickNumbers DEF Edit, RegInvariant, RegTypeOK
<1> QED
  BY <1>1 DEF RegInvariant, RegTypeOK, FormFields, OpsInOrder, ScreenFollows, CreationHolds,
     KeptIsKnown, MachineKeepsItsPhoto

LEMMA FieldsKeep ==
  ASSUME RegInvariant,
         \/ \E b \in Brands : SelectBrand(b)
         \/ \E text \in Brands \union {NoChoice} : TypeBrand(text)
         \/ \E m \in Models : SelectModel(m)
         \/ \E text \in Models \union {NoChoice} : TypeModel(text)
  PROVE  RegInvariant'
<1>1. form \in FormFields /\ EmptyForm \in FormFields
  BY RegRows, RegTypes DEF RegInvariant
<1>2. \A b \in Brands : [EmptyForm EXCEPT !.brand = b, !.brandText = b] \in FormFields
  BY DEF EmptyForm, FormFields
<1>3. \A text \in Brands \union {NoChoice} :
        [EmptyForm EXCEPT !.brandText = text] \in FormFields /\ [form EXCEPT !.brandText = text] \in FormFields
  BY <1>1 DEF EmptyForm, FormFields
<1>4. \A m \in Models : [form EXCEPT !.model = m, !.modelText = m] \in FormFields
  BY <1>1 DEF FormFields
<1>5. \A text \in Models \union {NoChoice} : [form EXCEPT !.model = NoChoice, !.modelText = text] \in FormFields
  BY <1>1 DEF FormFields
<1>6. PICK new \in FormFields : Edit(new)
  BY <1>2, <1>3, <1>4, <1>5 DEF SelectBrand, TypeBrand, SelectModel, TypeModel
<1> QED
  BY <1>6, EditKeeps

\* What clearOperation() makes of the operations.
LEMMA OperationCleared ==
  ASSUME RegInvariant, NEW cancelled \in SUBSET Ops, NEW deleted \in SUBSET Ops, Clear(cancelled, deleted)
  PROVE  /\ Cancelled(cancelled) \in [Ops -> OpRows]
         /\ \A o \in Ops : Cancelled(cancelled)[o].stage = op[o].stage /\ (o # current => Cancelled(cancelled)[o] = op[o])
         /\ \A o \in deleted : op[o].stage = "ended"
         /\ \A o \in Ops : current = o /\ photo.status = "done" => o \in deleted
<1>1. op \in [Ops -> OpRows] /\ current \in 0 .. MaxPicks
  BY RegTypes DEF RegInvariant
<1>2. \A o \in Ops : [op[o] EXCEPT !.cancelled = TRUE] \in OpRows /\ [op[o] EXCEPT !.cancelled = TRUE].stage = op[o].stage
  BY <1>1 DEF OpRows
<1>3. Cancelled(cancelled) = [o \in Ops |-> IF o \in cancelled THEN [op[o] EXCEPT !.cancelled = TRUE] ELSE op[o]]
  BY DEF Cancelled
<1>4. /\ cancelled = (IF current # 0 THEN {current} ELSE {})
      /\ deleted = {o \in cancelled : op[o].stage = "ended" /\ photo.status = "done"}
  BY DEF Clear
<1>5. Cancelled(cancelled) \in [Ops -> OpRows]
  BY <1>1, <1>2, <1>3
<1>6. \A o \in Ops : Cancelled(cancelled)[o].stage = op[o].stage /\ (o # current => Cancelled(cancelled)[o] = op[o])
  BY <1>2, <1>3, <1>4
<1>7. \A o \in Ops : current = o /\ photo.status = "done" => o \in deleted
  <2>1. ASSUME NEW o \in Ops, current = o, photo.status = "done" PROVE op[o].stage = "ended"
    <3>1. op[o].stage # "none"
      BY <2>1, PickNumbers DEF RegInvariant, ScreenFollows, OpsInOrder, RegTypeOK
    <3>2. op[o].stage # "picking" /\ op[o].stage \notin Uploading
      BY <2>1, PickNumbers DEF RegInvariant, ScreenFollows
    <3>3. op[o] \in OpRows
      BY <1>1
    <3> QED
      BY <3>1, <3>2, <3>3 DEF OpRows, Uploading
  <2> QED
    BY <1>4, <2>1, PickNumbers
<1>8. \A o \in deleted : op[o].stage = "ended"
  BY <1>4
<1> QED
  BY <1>5, <1>6, <1>7, <1>8

\* A pick or a retry: the operation before it is cancelled.
LEMMA BeginKeeps ==
  ASSUME RegInvariant, NEW stage, NEW status, Begin(stage, status), registering, creation.stage = "idle",
         <<stage, status>> \in {<<"picking", "picking">>, <<"authorizing", "uploading">>}
  PROVE  RegInvariant'
<1> USE DEF RegInvariant
<1>1. PICK cancelled \in SUBSET Ops, deleted \in SUBSET Ops :
        /\ Clear(cancelled, deleted)
        /\ op' = [Cancelled(cancelled) EXCEPT ![picks'].stage = stage]
        /\ discards' = discards \union deleted
  BY DEF Begin
<1>c. /\ Cancelled(cancelled) \in [Ops -> OpRows]
      /\ \A o \in Ops : Cancelled(cancelled)[o].stage = op[o].stage /\ (o # current => Cancelled(cancelled)[o] = op[o])
      /\ \A o \in deleted : op[o].stage = "ended"
      /\ \A o \in Ops : current = o /\ photo.status = "done" => o \in deleted
  <2>1. Clear(cancelled, deleted)
    BY <1>1
  <2> QED
    BY <2>1, OperationCleared
<1>2. /\ picks' = picks + 1 /\ current' = picks' /\ picks' \in Ops /\ picks' > picks
      /\ photo' = [status |-> status, op |-> picks']
      /\ UNCHANGED <<registering, form, media, creation, machine, edits, losses>>
  BY PickNumbers DEF Begin, RegTypeOK
<1>3. /\ op[picks'].stage = "none" /\ picks' # current /\ op[picks'] \in OpRows
      /\ Cancelled(cancelled) \in [Ops -> OpRows]
  BY <1>1, <1>c, <1>2, PickNumbers, RegTypes DEF OpsInOrder, ScreenFollows, RegTypeOK
<1> DEFINE new == [op[picks'] EXCEPT !.stage = stage]
<1>4. new \in OpRows /\ new.stage = stage /\ new.cancelled = op[picks'].cancelled
  BY <1>3 DEF OpRows
<1>5. /\ op'[picks'] = new
      /\ \A o \in Ops : o # picks' => op'[o] = Cancelled(cancelled)[o]
      /\ op' \in [Ops -> OpRows]
  <2>1. Cancelled(cancelled)[picks'] = op[picks']
    BY <1>1, <1>c, <1>2, <1>3
  <2> QED
    BY <1>1, <1>c, <1>2, <1>3, <1>4, <2>1
<1> HIDE DEF new
<1>6. RegTypeOK'
  <2>1. photo' \in PhotoRows
    BY <1>2, PickNumbers DEF PhotoRows
  <2>2. current' \in 0 .. MaxPicks /\ picks' \in 0 .. MaxPicks /\ discards' \subseteq Ops
    BY <1>1, <1>c, <1>2, PickNumbers, RegTypes
  <2> QED
    BY <1>2, <1>5, <2>1, <2>2 DEF RegTypeOK, PhotoRows, OpRows
<1>7. OpsInOrder'
  <2>1. \A o \in Ops : op'[o].stage = "none" <=> o > picks'
    BY <1>1, <1>c, <1>2, <1>4, <1>5, PickNumbers DEF OpsInOrder, RegTypeOK
  <2>2. \A o \in Ops : op'[o].stage = "none" => ~op'[o].cancelled
    <3>1. \A o \in Ops : op[o].stage = "none" => o # current
      BY PickNumbers DEF OpsInOrder, ScreenFollows, RegTypeOK
    <3> QED
      BY <1>1, <1>c, <1>4, <1>5, <3>1 DEF OpsInOrder
  <2>3. media' = media /\ media[picks'] = "none"
    BY <1>2, <1>3 DEF OpsInOrder
  <2>4. \A o \in Ops : op'[o].stage \in {"none", "picking", "authorizing"} => media[o] = "none"
    BY <1>1, <1>c, <1>5, <2>3 DEF OpsInOrder
  <2>5. \A o \in Ops : media[o] \in {"kept", "attached"} => op'[o].stage \in {"completed", "ended"}
    BY <1>1, <1>c, <1>5, <2>3 DEF OpsInOrder
  <2>6. \A o \in discards' : op'[o].stage = "ended"
    <3>1. \A o \in discards \union deleted : o \in Ops /\ op[o].stage = "ended"
      BY <1>1, <1>c DEF OpsInOrder, RegTypeOK
    <3> QED
      BY <1>1, <1>c, <1>3, <1>5, <3>1
  <2> QED
    BY <2>1, <2>2, <2>3, <2>4, <2>5, <2>6 DEF OpsInOrder
<1>8. ScreenFollows'
  <2>1. op'[current'].stage = stage /\ ~op'[current'].cancelled /\ current' # 0 /\ current' <= picks'
    BY <1>2, <1>3, <1>4, <1>5, PickNumbers DEF OpsInOrder
  <2> QED
    BY <1>2, <2>1 DEF ScreenFollows, Uploading
<1>9. CreationHolds' /\ MachineKeepsItsPhoto'
  BY <1>2 DEF CreationHolds, MachineKeepsItsPhoto
<1>10. KeptIsKnown'
  <2>1. SUFFICES ASSUME losses = 0, NEW o \in Ops, media[o] = "kept"
                 PROVE  op'[o].stage = "completed" \/ o \in discards'
    BY <1>2 DEF KeptIsKnown
  <2>2. o # picks'
    BY <1>3, <2>1 DEF OpsInOrder
  <2> QED
    BY <1>1, <1>c, <1>5, <2>1, <2>2 DEF KeptIsKnown
<1> QED
  BY <1>6, <1>7, <1>8, <1>9, <1>10

\* The screen lets go of its photo: it is taken back, or the screen goes.
LEMMA DropKeeps ==
  ASSUME RegInvariant, CancelUpload \/ LeaveRegistration
  PROVE  RegInvariant'
<1> USE DEF RegInvariant
<1>1. PICK cancelled \in SUBSET Ops, deleted \in SUBSET Ops :
        /\ Clear(cancelled, deleted)
        /\ op' = Cancelled(cancelled) /\ discards' = discards \union deleted
  BY DEF CancelUpload, LeaveRegistration
<1>c. /\ Cancelled(cancelled) \in [Ops -> OpRows]
      /\ \A o \in Ops : Cancelled(cancelled)[o].stage = op[o].stage /\ (o # current => Cancelled(cancelled)[o] = op[o])
      /\ \A o \in deleted : op[o].stage = "ended"
      /\ \A o \in Ops : current = o /\ photo.status = "done" => o \in deleted
  <2>1. Clear(cancelled, deleted)
    BY <1>1
  <2> QED
    BY <2>1, OperationCleared
<1>2. /\ current' = 0 /\ photo' = NoPhoto /\ form' \in FormFields /\ registering' \in BOOLEAN
      /\ registering' => registering
      /\ UNCHANGED <<picks, media, creation, machine, edits, losses>>
  BY RegRows, RegTypes DEF CancelUpload, LeaveRegistration
<1>3. RegTypeOK'
  <2>1. discards' \subseteq Ops
    BY <1>1, <1>c, RegTypes
  <2>2. op' \in [Ops -> OpRows] /\ photo' \in PhotoRows /\ current' \in 0 .. MaxPicks
    BY <1>1, <1>c, <1>2, RegRows, PickNumbers
  <2> QED
    BY <1>2, <2>1, <2>2 DEF RegTypeOK, FormFields, PhotoRows, OpRows
<1>4. OpsInOrder'
  <2>1. \A o \in Ops : op'[o].stage = op[o].stage
    BY <1>1, <1>c
  <2>2. \A o \in Ops : op'[o].stage = "none" => ~op'[o].cancelled
    <3>1. \A o \in Ops : op[o].stage = "none" => o # current
      BY PickNumbers DEF OpsInOrder, ScreenFollows, RegTypeOK
    <3> QED
      BY <1>1, <1>c, <2>1, <3>1 DEF OpsInOrder
  <2>3. \A o \in discards \union deleted : o \in Ops /\ op[o].stage = "ended"
    BY <1>1, <1>c DEF OpsInOrder, RegTypeOK
  <2> QED
    BY <1>1, <1>c, <1>2, <2>1, <2>2, <2>3 DEF OpsInOrder
<1>5. ScreenFollows'
  BY <1>2, RegRows DEF ScreenFollows
<1>6. CreationHolds' /\ MachineKeepsItsPhoto'
  BY <1>2, RegRows DEF CreationHolds, MachineKeepsItsPhoto
<1>7. KeptIsKnown'
  BY <1>1, <1>c, <1>2 DEF KeptIsKnown
<1> QED
  BY <1>3, <1>4, <1>5, <1>6, <1>7

\* An operation gets on, and its media with it.
LEMMA OperationMoves ==
  ASSUME RegInvariant, NEW o \in Ops, NEW stage \in Uploading \union {"ended"}, NEW m \in MediaStates,
         o <= picks, op[o].stage # "ended",
         op' = [op EXCEPT ![o].stage = stage], media' = [media EXCEPT ![o] = m],
         m \in {"kept", "attached"} => stage \in {"completed", "ended"},
         stage = "authorizing" => m = "none",
         UNCHANGED <<registering, form, current, picks, creation, machine, edits>>,
         losses' \in 0 .. MaxLosses, discards' \in {discards, discards \union {o}},
         stage # "ended" => discards' = discards
  PROVE  /\ OpsInOrder'
         /\ op' \in [Ops -> OpRows] /\ media' \in [Ops -> MediaStates] /\ discards' \subseteq Ops
         /\ op'[o].stage = stage /\ op'[o].cancelled = op[o].cancelled /\ media'[o] = m
         /\ \A p \in Ops : p # o => op'[p] = op[p] /\ media'[p] = media[p]
<1> USE DEF RegInvariant
<1>1. op \in [Ops -> OpRows] /\ media \in [Ops -> MediaStates] /\ discards \subseteq Ops
  BY RegTypes
<1>2. /\ [op[o] EXCEPT !.stage = stage] \in OpRows /\ [op[o] EXCEPT !.stage = stage].stage = stage
      /\ [op[o] EXCEPT !.stage = stage].cancelled = op[o].cancelled
  BY <1>1 DEF OpRows, Uploading
<1>3. /\ op' \in [Ops -> OpRows] /\ media' \in [Ops -> MediaStates] /\ discards' \subseteq Ops
      /\ op'[o].stage = stage /\ op'[o].cancelled = op[o].cancelled /\ media'[o] = m
  BY <1>1, <1>2
<1>4. \A p \in Ops : p # o => op'[p] = op[p] /\ media'[p] = media[p]
  BY <1>1
<1>5. stage # "none" /\ stage # "picking" /\ op[o].stage # "none" /\ o \notin discards
  BY PickNumbers DEF Uploading, OpsInOrder, RegTypeOK
<1>6. OpsInOrder'
  BY <1>3, <1>4, <1>5 DEF OpsInOrder
<1> QED
  BY <1>3, <1>4, <1>6

\* While the screen stays, what it follows is the stage of its operation.
LEMMA RegisteringHolds ==
  ASSUME RegInvariant, NEW o \in Ops, NEW stage \in Uploading \union {"ended"}, NEW m \in MediaStates,
         o <= picks, op[o].stage \notin {"completed", "ended"},
         op' = [op EXCEPT ![o].stage = stage], media' = [media EXCEPT ![o] = m],
         m = "kept" => stage = "completed", media[o] # "attached", m # "attached",
         stage = "authorizing" => m = "none",
         UNCHANGED <<registering, form, current, picks, discards, creation, machine, edits>>,
         losses' = losses \/ losses' \in 1 .. MaxLosses,
         current # o => photo' = photo,
         current = o => /\ photo' \in PhotoRows
                        /\ stage \in Uploading <=> photo'.status = "uploading"
                        /\ photo'.status \notin {"picking", "done"}
  PROVE  RegInvariant'
<1> USE DEF RegInvariant
<1>1. losses' \in 0 .. MaxLosses /\ MaxLosses \in Nat
  BY PickNumbers DEF RegTypeOK
<1>2. /\ OpsInOrder'
      /\ op' \in [Ops -> OpRows] /\ media' \in [Ops -> MediaStates] /\ discards' \subseteq Ops
      /\ op'[o].stage = stage /\ op'[o].cancelled = op[o].cancelled /\ media'[o] = m
      /\ \A p \in Ops : p # o => op'[p] = op[p] /\ media'[p] = media[p]
  BY <1>1, OperationMoves
<1>3. RegTypeOK'
  BY <1>1, <1>2, RegTypes DEF RegTypeOK, OpRows, MediaStates, PhotoRows
<1>4. ScreenFollows'
  <2>1. CASE current = o
    <3>1. current' = o /\ o # 0 /\ registering' = registering /\ picks' = picks
      BY <2>1, PickNumbers
    <3> QED
      BY <1>2, <2>1, <3>1 DEF ScreenFollows, Uploading
  <2>2. CASE current # o
    <3>1. current = 0 \/ current \in Ops
      BY PickNumbers DEF RegTypeOK
    <3>2. photo' = photo /\ UNCHANGED <<current, registering, picks>>
      BY <2>2
    <3> QED
      BY <1>2, <2>2, <3>1, <3>2 DEF ScreenFollows
  <2> QED
    BY <2>1, <2>2
<1>5. CreationHolds'
  <2>1. ASSUME current = o, registering, creation.stage # "idle" PROVE FALSE
    BY <2>1, PickNumbers, RegTypes DEF ScreenFollows, CreationHolds, OpsInOrder, OpRows,
       Uploading, RegTypeOK
  <2>2. creation.stage = "created" /\ creation.photo # 0 => media'[creation.photo] = "attached"
    <3>1. creation.photo = 0 \/ creation.photo \in Ops
      BY PickNumbers DEF RegTypeOK
    <3> QED
      BY <1>2, <3>1 DEF CreationHolds
  <2>3. registering /\ creation.stage # "idle" => photo' = photo
    BY <2>1
  <2> QED
    BY <2>2, <2>3 DEF CreationHolds
<1>6. KeptIsKnown'
  <2>1. SUFFICES ASSUME losses' = 0, NEW p \in Ops, media'[p] = "kept"
                 PROVE  op'[p].stage = "completed" \/ p \in discards' \/ (current' = p /\ photo'.status = "done")
    BY DEF KeptIsKnown
  <2>2. losses = 0
    BY <2>1, PickNumbers
  <2>3. CASE p = o
    BY <1>2, <2>1, <2>3
  <2>4. CASE p # o
    <3>1. media[p] = "kept" /\ op'[p] = op[p]
      BY <1>2, <2>1, <2>4
    <3>2. current = p => photo' = photo
      BY <2>4
    <3> QED
      BY <2>2, <3>1, <3>2 DEF KeptIsKnown
  <2> QED
    BY <2>3, <2>4
<1>7. MachineKeepsItsPhoto'
  <2>1. machine.photo = 0 \/ machine.photo \in Ops
    BY PickNumbers DEF RegTypeOK
  <2> QED
    BY <1>2, <2>1 DEF MachineKeepsItsPhoto
<1> QED
  BY <1>2, <1>3, <1>4, <1>5, <1>6, <1>7

LEMMA EndPickKeeps ==
  ASSUME RegInvariant, NEW o \in Ops, EndPick(o)
  PROVE  RegInvariant'
<1> USE DEF RegInvariant
<1>1. op[o].stage = "picking" /\ media[o] = "none" /\ o <= picks
  BY PickNumbers DEF EndPick, OpsInOrder, RegTypeOK
<1>2. PICK stage \in {"authorizing", "ended"} :
        /\ op' = [op EXCEPT ![o].stage = stage]
        /\ current # o => photo' = photo
        /\ current = o => /\ photo' \in {[photo EXCEPT !.status = "uploading"], NoPhoto, [NoPhoto EXCEPT !.status = "error"]}
                          /\ stage = "authorizing" <=> photo' = [photo EXCEPT !.status = "uploading"]
  BY RegRows, RegTypes DEF EndPick, PhotoRows, NoPhoto
<1>3. current = o => /\ photo' \in PhotoRows
                     /\ stage \in Uploading <=> photo'.status = "uploading"
                     /\ photo'.status \notin {"picking", "done"}
  BY <1>2, PickNumbers, RegTypes DEF PhotoRows, NoPhoto, Uploading
<1>4. /\ UNCHANGED <<registering, form, current, picks, media, discards, creation, machine,
                     edits, losses>>
      /\ media' = [media EXCEPT ![o] = "none"]
  BY <1>1, RegTypes DEF EndPick
<1>5. stage \in Uploading \union {"ended"} /\ "none" \in MediaStates
  BY DEF Uploading, MediaStates
<1> QED
  BY <1>1, <1>2, <1>3, <1>4, <1>5, RegisteringHolds

LEMMA ServeKeeps ==
  ASSUME RegInvariant, NEW o \in Ops, ServeAuthorize(o) \/ ServeContent(o) \/ ServeComplete(o)
  PROVE  RegInvariant'
<1> USE DEF RegInvariant
<1>1. PICK stage \in {"authorized", "sent", "completed"}, m \in {"pending", "stored", "kept"} :
        /\ op' = [op EXCEPT ![o].stage = stage] /\ media' = [media EXCEPT ![o] = m]
        /\ m = "kept" => stage = "completed"
  BY DEF ServeAuthorize, ServeContent, ServeComplete, Serve
<1>2. /\ op[o].stage \in Uploading /\ op[o].stage # "completed"
      /\ UNCHANGED <<registering, form, photo, current, picks, discards, creation, machine,
                     edits, losses>>
  BY DEF ServeAuthorize, ServeContent, ServeComplete, Serve, Uploading
<1>3. o <= picks /\ media[o] # "attached"
  BY <1>2, PickNumbers DEF OpsInOrder, RegTypeOK, Uploading
<1>4. stage \in Uploading /\ m \in MediaStates
  BY DEF Uploading, MediaStates
<1>5. current = o => photo.status = "uploading" /\ photo \in PhotoRows
  BY <1>2, PickNumbers, RegTypes DEF ScreenFollows
<1>6. op[o].stage \notin {"completed", "ended"}
  BY <1>2 DEF Uploading
<1> QED
  BY <1>1, <1>2, <1>3, <1>4, <1>5, <1>6, RegisteringHolds

LEMMA ProceedKeeps ==
  ASSUME RegInvariant, NEW o \in Ops, Proceed(o)
  PROVE  RegInvariant'
<1> USE DEF RegInvariant
<1>1. /\ op[o].stage \in {"authorized", "sent"} /\ op[o] \in OpRows
      /\ UNCHANGED <<registering, form, photo, current, picks, media, discards, creation,
                     machine, edits, losses>>
  BY RegTypes DEF Proceed
<1>2. PICK stage \in {"sending", "completing", "ended"} :
        op' = [op EXCEPT ![o].stage = stage] /\ (stage = "ended" => op[o].cancelled)
  <2>1. op' = [op EXCEPT ![o].stage = IF op[o].cancelled THEN "ended"
                                      ELSE IF op[o].stage = "authorized" THEN "sending" ELSE "completing"]
    BY RegTypes DEF Proceed
  <2>2. CASE op[o].cancelled
    <3>1. op' = [op EXCEPT ![o].stage = "ended"]
      BY <2>1, <2>2
    <3> QED
      BY <2>2, <3>1
  <2>3. CASE ~op[o].cancelled /\ op[o].stage = "authorized"
    <3>1. op' = [op EXCEPT ![o].stage = "sending"]
      BY <2>1, <2>3
    <3> QED
      BY <3>1
  <2>4. CASE ~op[o].cancelled /\ op[o].stage # "authorized"
    <3>1. op' = [op EXCEPT ![o].stage = "completing"]
      BY <2>1, <2>4
    <3> QED
      BY <3>1
  <2> QED
    BY <2>2, <2>3, <2>4
<1>3. media' = [media EXCEPT ![o] = media[o]] /\ media[o] \in MediaStates \ {"kept", "attached"}
  BY <1>1, RegTypes DEF OpsInOrder
<1>4. o <= picks
  BY <1>1, PickNumbers DEF OpsInOrder, RegTypeOK
<1>5. current = o => photo.status = "uploading" /\ photo \in PhotoRows /\ stage # "ended"
  BY <1>1, <1>2, PickNumbers, RegTypes DEF ScreenFollows, Uploading
<1>6. stage \in Uploading \union {"ended"} /\ stage # "authorizing" /\ (stage # "ended" => stage \in Uploading)
  BY DEF Uploading
<1> QED
  BY <1>1, <1>2, <1>3, <1>4, <1>5, <1>6, RegisteringHolds

\* What an ended upload leaves unchanged.
LEMMA UploadOver ==
  ASSUME RegInvariant, NEW o \in Ops, op[o].stage \in Uploading, op' = [op EXCEPT ![o].stage = "ended"],
         UNCHANGED <<registering, form, current, picks, media, creation, machine, edits>>,
         losses' \in 0 .. MaxLosses, discards' \in {discards, discards \union {o}}, photo' \in PhotoRows,
         current # o => photo' = photo,
         current = o => photo'.status \notin {"picking", "uploading"} /\ (photo'.status = "done" => photo'.op = o)
  PROVE  /\ RegTypeOK' /\ OpsInOrder' /\ ScreenFollows' /\ CreationHolds' /\ MachineKeepsItsPhoto'
         /\ op'[o].stage = "ended" /\ \A p \in Ops : p # o => op'[p] = op[p]
<1> USE DEF RegInvariant
<1>1. o <= picks /\ op[o].stage # "ended" /\ media' = [media EXCEPT ![o] = media[o]] /\ media[o] \in MediaStates
  BY PickNumbers, RegTypes DEF OpsInOrder, RegTypeOK, Uploading
<1>2. /\ OpsInOrder'
      /\ op' \in [Ops -> OpRows] /\ media' \in [Ops -> MediaStates] /\ discards' \subseteq Ops
      /\ op'[o].stage = "ended" /\ op'[o].cancelled = op[o].cancelled
      /\ \A p \in Ops : p # o => op'[p] = op[p]
  <2>1. "ended" \in Uploading \union {"ended"} /\ "ended" \in {"completed", "ended"} /\ "ended" # "authorizing"
    OBVIOUS
  <2>2. o <= picks /\ op[o].stage # "ended" /\ op' = [op EXCEPT ![o].stage = "ended"]
        /\ media' = [media EXCEPT ![o] = media[o]] /\ media[o] \in MediaStates
        /\ UNCHANGED <<registering, form, current, picks, creation, machine, edits>>
        /\ losses' \in 0 .. MaxLosses /\ discards' \in {discards, discards \union {o}}
    BY <1>1
  <2> QED
    BY <2>1, <2>2, OperationMoves
<1>3. RegTypeOK'
  BY <1>2, RegTypes DEF RegTypeOK, OpRows, MediaStates, PhotoRows
<1>4. ScreenFollows'
  <2>1. CASE current = o
    <3>1. current' = o /\ o # 0 /\ registering' = registering /\ picks' = picks
      BY <2>1, PickNumbers
    <3> QED
      BY <1>2, <2>1, <3>1 DEF ScreenFollows, Uploading
  <2>2. CASE current # o
    <3>1. current = 0 \/ current \in Ops
      BY PickNumbers DEF RegTypeOK
    <3>2. photo' = photo /\ UNCHANGED <<current, registering, picks>>
      BY <2>2
    <3> QED
      BY <1>2, <2>2, <3>1, <3>2 DEF ScreenFollows
  <2> QED
    BY <2>1, <2>2
<1>5. CreationHolds'
  <2>1. current = o => ~registering \/ creation.stage = "idle"
    BY PickNumbers DEF ScreenFollows, CreationHolds
  <2> QED
    BY <2>1 DEF CreationHolds
<1>6. MachineKeepsItsPhoto'
  BY DEF MachineKeepsItsPhoto
<1> QED
  BY <1>2, <1>3, <1>4, <1>5, <1>6

LEMMA EndUploadKeeps ==
  ASSUME RegInvariant, NEW o \in Ops, EndUpload(o)
  PROVE  RegInvariant'
<1> USE DEF RegInvariant
<1>1. /\ op[o].stage = "completed" /\ op' = [op EXCEPT ![o].stage = "ended"]
      /\ UNCHANGED <<registering, form, current, picks, media, creation, machine, edits, losses>>
  BY DEF EndUpload
<1>2. CASE op[o].cancelled \/ current # o
  <2>1. discards' = discards \union {o} /\ photo' = photo
    BY <1>2 DEF EndUpload, Uploaded
  <2>2. current # o
    BY <1>2, PickNumbers DEF ScreenFollows
  <2>3. /\ RegTypeOK' /\ OpsInOrder' /\ ScreenFollows' /\ CreationHolds' /\ MachineKeepsItsPhoto'
        /\ op'[o].stage = "ended" /\ \A p \in Ops : p # o => op'[p] = op[p]
    <3>1. op[o].stage \in Uploading /\ photo' \in PhotoRows /\ losses' \in 0 .. MaxLosses
      BY <1>1, <2>1, RegTypes DEF Uploading
    <3> QED
      BY <1>1, <2>1, <2>2, <3>1, UploadOver
  <2>4. KeptIsKnown'
    BY <1>1, <2>1, <2>3 DEF KeptIsKnown
  <2> QED
    BY <2>3, <2>4
<1>3. CASE ~op[o].cancelled /\ current = o
  <2>1. photo' = [status |-> "done", op |-> o] /\ discards' = discards
    BY <1>3 DEF EndUpload, Uploaded
  <2>2. photo' \in PhotoRows
    BY <2>1, PickNumbers DEF PhotoRows
  <2>3. /\ RegTypeOK' /\ OpsInOrder' /\ ScreenFollows' /\ CreationHolds' /\ MachineKeepsItsPhoto'
        /\ op'[o].stage = "ended" /\ \A p \in Ops : p # o => op'[p] = op[p]
    <3>1. op[o].stage \in Uploading /\ losses' \in 0 .. MaxLosses
      BY <1>1, RegTypes DEF Uploading
    <3> QED
      BY <1>1, <1>3, <2>1, <2>2, <3>1, UploadOver
  <2>4. KeptIsKnown'
    BY <1>1, <1>3, <2>1, <2>3 DEF KeptIsKnown
  <2> QED
    BY <2>3, <2>4
<1> QED
  BY <1>2, <1>3

LEMMA FailUploadKeeps ==
  ASSUME RegInvariant, NEW o \in Ops, FailUpload(o)
  PROVE  RegInvariant'
<1> USE DEF RegInvariant
<1>1. /\ op[o].stage \in Uploading /\ op' = [op EXCEPT ![o].stage = "ended"]
      /\ photo' = IF current = o THEN [photo EXCEPT !.status = "error"] ELSE photo
      /\ UNCHANGED <<registering, form, current, picks, media, discards, creation, machine,
                     edits>>
  BY DEF FailUpload, Uploading
<1>2. losses' \in 1 .. MaxLosses \/ (losses' = losses /\ media[o] = "abandoned")
  BY PickNumbers DEF FailUpload, Loss, RegTypeOK
<1>3. losses' \in 0 .. MaxLosses /\ photo' \in PhotoRows
  <2>1. photo \in PhotoRows /\ losses \in 0 .. MaxLosses
    BY RegTypes
  <2>2. [photo EXCEPT !.status = "error"] \in PhotoRows
    BY <2>1 DEF PhotoRows
  <2> QED
    BY <1>1, <1>2, <2>1, <2>2, PickNumbers
<1>4. current = o => photo'.status = "error"
  BY <1>1, RegTypes DEF PhotoRows
<1>5. /\ RegTypeOK' /\ OpsInOrder' /\ ScreenFollows' /\ CreationHolds' /\ MachineKeepsItsPhoto'
      /\ op'[o].stage = "ended" /\ \A p \in Ops : p # o => op'[p] = op[p]
  BY <1>1, <1>3, <1>4, UploadOver
<1>6. KeptIsKnown'
  <2>1. CASE losses' \in 1 .. MaxLosses
    BY <2>1 DEF KeptIsKnown
  <2>2. CASE losses' = losses /\ media[o] = "abandoned"
    BY <1>1, <1>5, <2>2 DEF KeptIsKnown
  <2> QED
    BY <1>2, <2>1, <2>2
<1> QED
  BY <1>5, <1>6

\* The API discards media or cleans up: what is attached stays.
LEMMA MediaGoKeeps ==
  ASSUME RegInvariant, NEW o \in Ops, ServeDiscard(o) \/ LoseDiscard(o) \/ Cleanup(o)
  PROVE  RegInvariant'
<1> USE DEF RegInvariant
<1>1. /\ UNCHANGED <<registering, form, photo, current, picks, op, creation, machine, edits>>
      /\ discards' \subseteq discards
  BY DEF ServeDiscard, LoseDiscard, Cleanup
<1>2. PICK m \in MediaStates : /\ media' = [media EXCEPT ![o] = m] /\ m # "kept" /\ m # "none"
                               /\ media[o] = "attached" <=> m = "attached"
                               /\ losses' = losses /\ (media[o] = "none" => op[o].stage = "ended")
                               /\ discards \ {o} \subseteq discards'
      \/ /\ media' = media /\ losses' \in 1 .. MaxLosses
  <2>1. CASE LoseDiscard(o)
    BY <2>1, PickNumbers DEF LoseDiscard, Loss, RegTypeOK, MediaStates
  <2>2. CASE ServeDiscard(o)
    <3>1. op[o].stage = "ended" /\ losses' = losses /\ discards' = discards \ {o}
      BY <2>2 DEF ServeDiscard, OpsInOrder
    <3>2. media' = [media EXCEPT ![o] = IF media[o] = "attached" THEN "attached" ELSE "deleted"]
      BY <2>2, RegTypes DEF ServeDiscard, Discarded
    <3> QED
      BY <3>1, <3>2 DEF MediaStates
  <2>3. CASE Cleanup(o)
    BY <2>3 DEF Cleanup, MediaStates
  <2> QED
    BY <2>1, <2>2, <2>3
<1>3. /\ media' \in [Ops -> MediaStates]
      /\ \A p \in Ops : /\ media[p] = "attached" <=> media'[p] = "attached"
                        /\ media'[p] = "kept" => media[p] = "kept"
                        /\ media[p] = "none" => media'[p] = "none" \/ op[p].stage = "ended"
  BY <1>2, RegTypes
<1>4. losses' \in 0 .. MaxLosses /\ discards' \subseteq Ops
  BY <1>1, <1>2, PickNumbers DEF RegTypeOK
<1>5. RegTypeOK'
  BY <1>1, <1>3, <1>4 DEF RegTypeOK, MediaStates
<1>6. OpsInOrder'
  BY <1>1, <1>3 DEF OpsInOrder, RegTypeOK
<1>7. ScreenFollows'
  BY <1>1 DEF ScreenFollows
<1>8. CreationHolds' /\ MachineKeepsItsPhoto'
  <2>1. (creation.photo # 0 => creation.photo \in Ops) /\ (machine.photo # 0 => machine.photo \in Ops)
    BY PickNumbers DEF RegTypeOK
  <2> QED
    BY <1>1, <1>3, <2>1 DEF CreationHolds, MachineKeepsItsPhoto
<1>9. KeptIsKnown'
  <2>1. SUFFICES ASSUME losses' = 0, NEW p \in Ops, media'[p] = "kept"
                 PROVE  op[p].stage = "completed" \/ p \in discards' \/ (current = p /\ photo.status = "done")
    BY <1>1 DEF KeptIsKnown
  <2>2. losses = 0 /\ p # o /\ media[p] = "kept" /\ discards \ {o} \subseteq discards'
    BY <1>2, <2>1, RegTypes
  <2> QED
    BY <2>1, <2>2 DEF KeptIsKnown
<1> QED
  BY <1>5, <1>6, <1>7, <1>8, <1>9

LEMMA CreationKeepsPhoto ==
  ASSUME RegInvariant, Register \/ ServeCreation \/ LoseCreation \/ EndCreation
  PROVE  RegInvariant'
<1> USE DEF RegInvariant
<1>0. /\ creation \in CreationRows /\ photo \in PhotoRows /\ media \in [Ops -> MediaStates]
      /\ \A x \in CreationRows : /\ x.photo # 0 => x.photo \in Ops
                                 /\ [x EXCEPT !.stage = "refused"] \in CreationRows
                                 /\ [x EXCEPT !.stage = "created"] \in CreationRows
  BY PickNumbers, RegTypes DEF CreationRows
<1>1. CASE Register
  <2>1. /\ UNCHANGED <<registering, form, photo, current, picks, op, media, discards, machine,
                       edits, losses>>
        /\ creation' = [stage |-> "sent", photo |-> IF photo.status = "done" THEN photo.op ELSE 0]
        /\ photo.status \notin {"picking", "uploading"}
    BY <1>1 DEF Register
  <2>2. creation' \in CreationRows /\ creation'.stage = "sent" /\ (photo.status = "done" => creation'.photo = photo.op)
    BY <1>0, <2>1, PickNumbers DEF CreationRows, PhotoRows
  <2>3. CreationHolds'
    BY <2>1, <2>2 DEF CreationHolds
  <2> QED
    BY <2>1, <2>2, <2>3 DEF RegTypeOK, CreationRows, OpsInOrder, ScreenFollows, KeptIsKnown,
       MachineKeepsItsPhoto
<1>2. CASE LoseCreation
  <2>1. /\ UNCHANGED <<registering, form, photo, current, picks, op, media, discards, machine,
                       edits>>
        /\ creation' = [creation EXCEPT !.stage = "refused"] /\ creation.stage # "idle"
        /\ losses' \in 1 .. MaxLosses
    BY <1>2, PickNumbers DEF LoseCreation, Loss, RegTypeOK
  <2>2. creation' \in CreationRows /\ creation'.stage = "refused" /\ creation'.photo = creation.photo
        /\ losses' \in 0 .. MaxLosses /\ losses' # 0
    BY <1>0, <2>1, PickNumbers DEF CreationRows
  <2>3. CreationHolds'
    BY <2>1, <2>2 DEF CreationHolds
  <2> QED
    BY <2>1, <2>2, <2>3 DEF RegTypeOK, CreationRows, OpsInOrder, ScreenFollows, KeptIsKnown,
       MachineKeepsItsPhoto
<1>3. CASE EndCreation /\ ~(registering /\ creation.stage = "created")
  <2>1. UNCHANGED <<registering, form, photo, current, picks, op, media, discards, machine,
                    edits, losses>>
        /\ creation' = NoCreation
    BY <1>3 DEF EndCreation
  <2>2. creation' \in CreationRows /\ creation'.stage = "idle"
    BY <2>1, RegRows
  <2> QED
    BY <2>1, <2>2 DEF RegTypeOK, CreationRows, OpsInOrder, ScreenFollows, KeptIsKnown,
       MachineKeepsItsPhoto,
       CreationHolds
<1>4. CASE EndCreation /\ registering /\ creation.stage = "created"
  <2>1. /\ UNCHANGED <<picks, op, media, discards, machine, edits, losses>>
        /\ creation' = NoCreation /\ registering' = FALSE /\ current' = 0 /\ photo' = NoPhoto /\ form' = EmptyForm
    BY <1>4 DEF EndCreation
  <2>2. RegTypeOK'
    BY <2>1, PickNumbers, RegRows, RegTypes DEF RegTypeOK, CreationRows, PhotoRows, FormFields
  <2>3. KeptIsKnown'
    <3>1. \A o \in Ops : current = o /\ photo.status = "done" => media[o] = "attached"
      BY <1>4, PickNumbers DEF ScreenFollows, CreationHolds
    <3> QED
      BY <2>1, <3>1 DEF KeptIsKnown
  <2> QED
    BY <2>1, <2>2, <2>3, RegRows DEF OpsInOrder, ScreenFollows, MachineKeepsItsPhoto,
       CreationHolds
<1>5. CASE ServeCreation /\ creation'.stage = "refused"
  <2>1. /\ UNCHANGED <<registering, form, photo, current, picks, op, media, discards, machine,
                       edits, losses>>
        /\ creation' = [creation EXCEPT !.stage = "refused"] /\ creation.stage = "sent"
    BY <1>0, <1>5 DEF ServeCreation, CreationRows
  <2>2. creation' \in CreationRows /\ creation'.stage = "refused" /\ creation'.photo = creation.photo
    BY <1>0, <2>1 DEF CreationRows
  <2>3. CreationHolds'
    BY <2>1, <2>2 DEF CreationHolds
  <2> QED
    BY <2>1, <2>2, <2>3 DEF RegTypeOK, CreationRows, OpsInOrder, ScreenFollows, KeptIsKnown,
       MachineKeepsItsPhoto
<1>6. CASE ServeCreation /\ creation'.stage # "refused"
  <2>1. /\ UNCHANGED <<registering, form, photo, current, picks, op, discards, edits, losses>>
        /\ machine' = [exists |-> TRUE, photo |-> creation.photo]
        /\ media' = [p \in Ops |-> IF p = creation.photo THEN "attached" ELSE media[p]]
        /\ creation' = [creation EXCEPT !.stage = "created"] /\ creation.stage = "sent"
        /\ creation.photo # 0 => media[creation.photo] = "kept"
    BY <1>0, <1>6 DEF ServeCreation, CreationRows
  <2>2. creation' \in CreationRows /\ creation'.stage = "created" /\ creation'.photo = creation.photo
    BY <1>0, <2>1 DEF CreationRows
  <2>3. /\ media' \in [Ops -> MediaStates]
        /\ \A p \in Ops : media'[p] = IF p = creation.photo THEN "attached" ELSE media[p]
        /\ creation.photo # 0 => media'[creation.photo] = "attached"
    BY <1>0, <2>1 DEF MediaStates
  <2>4. machine' \in [exists: BOOLEAN, photo: 0 .. MaxPicks] /\ machine'.photo = creation.photo
    BY <1>0, <2>1 DEF CreationRows
  <2>5. RegTypeOK'
    BY <2>1, <2>2, <2>3, <2>4 DEF RegTypeOK, CreationRows, MediaStates
  <2>6. OpsInOrder'
    BY <1>0, <2>1, <2>3, PickNumbers DEF OpsInOrder, RegTypeOK
  <2>7. CreationHolds' /\ MachineKeepsItsPhoto'
    BY <2>1, <2>2, <2>3, <2>4 DEF CreationHolds, MachineKeepsItsPhoto
  <2>8. ScreenFollows' /\ KeptIsKnown'
    BY <2>1, <2>3 DEF ScreenFollows, KeptIsKnown
  <2> QED
    BY <2>5, <2>6, <2>7, <2>8
<1> QED
  BY <1>1, <1>2, <1>3, <1>4, <1>5, <1>6

LEMMA RegKeeps == RegInvariant /\ [RegStep]_regVars => RegInvariant'
<1> SUFFICES ASSUME RegInvariant, [RegStep]_regVars PROVE RegInvariant'
  OBVIOUS
<1>1. CASE UNCHANGED regVars
  BY <1>1 DEF regVars, RegInvariant, RegTypeOK, OpsInOrder, ScreenFollows, CreationHolds,
     KeptIsKnown,
     MachineKeepsItsPhoto
<1>2. CASE RegStep
  <2>1. ASSUME Pick \/ Retry PROVE RegInvariant'
    <3>1. registering /\ creation.stage = "idle"
      BY <2>1 DEF Pick, Retry
    <3>2. Begin("picking", "picking") \/ Begin("authorizing", "uploading")
      BY <2>1 DEF Pick, Retry
    <3> QED
      BY <3>1, <3>2, BeginKeeps
  <2> QED
    BY <1>2, <2>1, FieldsKeep, DropKeeps, CreationKeepsPhoto, EndPickKeeps, ServeKeeps,
       ProceedKeeps,
       EndUploadKeeps, FailUploadKeeps, MediaGoKeeps DEF RegStep
<1> QED
  BY <1>1, <1>2

-----------------------------------------------------------------------------
(***************************************************************************)
(* Following a request.  The phone's steps at the API are steps of         *)
(* ServiceWorkflow, under which a payment that has advanced its request    *)
(* stays one that has: what the phone was told of it does not become       *)
(* wrong, however late it is shown.                                        *)
(***************************************************************************)
ViewRows == [request: RequestReads, failed: BOOLEAN]
PollRows == [stage: {"idle", "asked", "answered"}, answer: RequestReads]
CommandRows == [op: {"none", "accept", "decline", "cancel"},
                stage: {"idle", "sent", "answered", "failed"}, answer: RequestReads]
VisitRows == [kind: Kinds,
              stage: {"none", "waiting", "reading", "read", "creating", "sheet", "rereading",
                      "reread", "ended"},
              status: {"none", "submitting", "pending", "retry", "verified", "unavailable"},
              answer: RequestReads, presses: 0 .. MaxRetries + 1, sheets: Nat]

PhoneTypeOK ==
  /\ view \in ViewRows /\ poll \in PollRows /\ front \in {"none", "detail", "payment"}
  /\ command \in CommandRows /\ (command.stage = "sent" => command.op # "none")
  /\ mail \subseteq {"accept", "decline", "cancel"} \union Kinds
  /\ visit \in VisitRows /\ tried \subseteq Kinds /\ visits \in 0 .. MaxVisits
  /\ lost \in 0 .. MaxLost

\* Whatever the phone holds or waits for tells of payments that were made.
ToldIsAdvanced ==
  view.request.paid \union poll.answer.paid \union command.answer.paid \union visit.answer.paid
    \subseteq Snapshot.paid

\* An attempt that has not come to its sheet has a press of its own.
SheetsArePressed ==
  /\ visit.sheets <= visit.presses
  /\ visit.stage \in {"waiting", "reading", "read", "creating"} => visit.sheets < visit.presses

TrackInvariant == IInv /\ PhoneTypeOK /\ ToldIsAdvanced /\ SheetsArePressed

LEMMA TrackNumbers ==
  /\ Mine \in Requests /\ MaxVisits \in Nat /\ MaxRetries \in Nat /\ MaxLost \in Nat
  /\ \A kind \in Kinds : <<Mine, kind>> \in Payments
  BY TrackingAssumption DEF Kinds, Payments

LEMMA PhoneRows ==
  /\ Unread \in RequestReads /\ Unread.paid = {} /\ Quiet \in PollRows /\ Asked \in PollRows
  /\ NoCommand \in CommandRows /\ NoVisit \in VisitRows
  /\ Quiet.answer = Unread /\ Asked.answer = Unread /\ NoCommand.answer = Unread /\ NoVisit.answer = Unread
  /\ NoVisit.sheets = 0 /\ NoVisit.presses = 0 /\ NoVisit.stage = "none" /\ NoCommand.stage = "idle"
<1>1. Unread \in RequestReads
  BY DEF Unread, RequestReads, States
<1>2. Quiet \in PollRows /\ Asked \in PollRows /\ NoCommand \in CommandRows
  BY <1>1 DEF Quiet, Asked, NoCommand, PollRows, CommandRows
<1>3. NoVisit \in VisitRows
  BY <1>1, TrackNumbers DEF NoVisit, VisitRows, Kinds
<1> QED
  BY <1>1, <1>2, <1>3 DEF Unread, Quiet, Asked, NoCommand, NoVisit

LEMMA Viewing ==
  /\ \A q \in RequestReads, b \in BOOLEAN : [request |-> q, failed |-> b] \in ViewRows
  /\ \A v \in ViewRows : [v EXCEPT !.failed = TRUE] \in ViewRows
                          /\ v.request \in RequestReads
<1>1. \A q \in RequestReads, b \in BOOLEAN : [request |-> q, failed |-> b] \in ViewRows
  BY DEF ViewRows
<1>2. ASSUME NEW v \in ViewRows
      PROVE  [v EXCEPT !.failed = TRUE] \in ViewRows /\ v.request \in RequestReads
  BY <1>2 DEF ViewRows
<1> QED
  BY <1>1, <1>2

Pushed(kind) ==
  [NoVisit EXCEPT !.kind = kind, !.stage = "waiting", !.status = "submitting", !.presses = 1]

LEMMA Pushing ==
  ASSUME NEW kind \in Kinds
  PROVE  Pushed(kind) \in VisitRows /\ Pushed(kind).sheets = 0 /\ Pushed(kind).presses = 1
         /\ Pushed(kind).answer = Unread
<1>1. 1 \in 0 .. MaxRetries + 1
  BY TrackNumbers
<1> QED
  BY <1>1, PhoneRows DEF Pushed, VisitRows, NoVisit

Begun(v, n) == [v EXCEPT !.stage = "reading", !.status = "submitting", !.presses = n]

LEMMA Executing ==
  ASSUME NEW v \in VisitRows, NEW n \in 0 .. MaxRetries + 1
  PROVE  /\ Begun(v, n) \in VisitRows /\ Begun(v, n).presses = n
         /\ Begun(v, n).sheets = v.sheets /\ Begun(v, n).answer = v.answer
<1>1. Begun(v, n) \in VisitRows
  BY DEF VisitRows, Begun
<1> QED
  BY <1>1 DEF VisitRows, Begun

\* The result of an attempt.
Over(v, result) == [v EXCEPT !.stage = "ended", !.status = result, !.answer = Unread]

LEMMA Ending ==
  ASSUME NEW v \in VisitRows, NEW result \in {"verified", "unavailable", v.status}
  PROVE  Over(v, result) \in VisitRows
<1>1. result \in {"none", "submitting", "pending", "retry", "verified", "unavailable"}
  BY DEF VisitRows
<1> QED
  BY <1>1, PhoneRows DEF VisitRows, Over

LEMMA SnapshotRead == IInv => Snapshot \in RequestReads /\ Snapshot.paid \subseteq Kinds
  BY TrackNumbers DEF IInv, TypeOK, Snapshot, RequestReads

LEMMA QuotedHolds == Quoted => IInv
<1> SUFFICES ASSUME Quoted PROVE IInv
  OBVIOUS
<1>1. \A p \in Payments : p[1] \in Requests /\ p[2] \in {"diagnostic", "additional"}
  BY DEF Payments
<1>2. \A r \in Requests : Diagnostic(r) \in Payments /\ Additional(r) \in Payments
                          /\ Diagnostic(r)[2] = "diagnostic" /\ Additional(r)[2] = "additional"
  BY DEF Diagnostic, Additional, Payments
<1>3. TypeOK
  <2>1. state \in [Requests -> States] /\ history \in [Requests -> SUBSET States]
    BY DEF Quoted, States
  <2>2. events \subseteq Payments \X {"failed", "confirmed"}
    BY <1>2 DEF Quoted
  <2> QED
    BY <2>1, <2>2 DEF Quoted, TypeOK
<1>4. PaymentsAccounted
  BY <1>1 DEF Quoted, PaymentsAccounted, Advanced
<1>5. WorkWasPaid /\ UnacceptedIsFree /\ RecordsMatchState
  BY <1>2, ServiceAssumption DEF Quoted, WorkWasPaid, UnacceptedIsFree, RecordsMatchState,
     Assignable
<1>6. Ledger
  <2>1. \A p \in Payments : <<p, "confirmed">> \in events => charge[p] = "captured"
    BY <1>2 DEF Quoted
  <2> QED
    BY <2>1 DEF Quoted, Ledger, BeforeRepair
<1> QED
  BY <1>3, <1>4, <1>5, <1>6 DEF IInv

LEMMA TrackStarts == (Init \/ Quoted) /\ PhoneInit => TrackInvariant
<1> SUFFICES ASSUME Init \/ Quoted, PhoneInit PROVE TrackInvariant
  OBVIOUS
<1>1. IInv
  BY Initially, QuotedHolds
<1>2. view \in ViewRows
  BY PhoneRows DEF PhoneInit, ViewRows
<1>3. PhoneTypeOK
  BY <1>2, PhoneRows, TrackNumbers DEF PhoneInit, PhoneTypeOK
<1>4. ToldIsAdvanced /\ SheetsArePressed
  BY PhoneRows DEF PhoneInit, ToldIsAdvanced, SheetsArePressed
<1> QED
  BY <1>1, <1>3, <1>4 DEF TrackInvariant

LEMMA HistoryGrows ==
  ASSUME IInv, [Next]_vars, NEW q \in Requests
  PROVE  history[q] \subseteq history'[q]
<1>1. ASSUME NEW r, NEW next, Reaches(r, next) PROVE history[q] \subseteq history'[q]
  BY <1>1 DEF IInv, TypeOK, Reaches
<1>2. ASSUME NEW r, NEW action, NEW actor, Transition(r, action, actor)
      PROVE  history[q] \subseteq history'[q]
  BY <1>1, <1>2 DEF Transition
<1>3. CASE UNCHANGED vars
  BY <1>3 DEF vars
<1>4. ASSUME NEW r \in Requests, CustomerStep(r) PROVE history[q] \subseteq history'[q]
  <2>1. CASE Create(r)
    BY <1>1, <2>1 DEF Create
  <2>2. CASE Cancel(r)
    BY <1>2, <2>2 DEF Cancel
  <2>3. CASE PayDiagnostic(r) \/ PayAdditional(r)
    BY <2>3 DEF PayDiagnostic, PayAdditional, OpensPayment
  <2>4. CASE DecideQuote(r)
    BY <1>2, <2>4 DEF DecideQuote
  <2> QED
    BY <1>4, <2>1, <2>2, <2>3, <2>4 DEF CustomerStep
<1>5. ASSUME NEW r \in Requests, StaffStep(r) PROVE history[q] \subseteq history'[q]
  <2>1. CASE SetDiagnosticFee(r) \/ AdminCancel(r) \/ StartNoCostRepair(r)
    BY <1>2, <2>1 DEF SetDiagnosticFee, AdminCancel, StartNoCostRepair
  <2>2. CASE CreateQuote(r)
    BY <1>2, <2>2 DEF CreateQuote
  <2>3. ASSUME NEW t \in Technicians, Schedule(r, t) PROVE history[q] \subseteq history'[q]
    BY <1>2, <2>3 DEF Schedule
  <2>4. ASSUME NEW t \in Technicians, Assign(r, t) PROVE history[q] \subseteq history'[q]
    BY <2>4 DEF Assign
  <2>5. ASSUME NEW action \in OperationalActions, AdminAction(r, action) \/ TechnicianAction(r, action)
        PROVE  history[q] \subseteq history'[q]
    BY <1>2, <2>5 DEF AdminAction, TechnicianAction
  <2> QED
    BY <1>5, <2>1, <2>2, <2>3, <2>4, <2>5 DEF StaffStep
<1>6. ASSUME NEW p \in Payments, ProviderStep(p) PROVE history[q] \subseteq history'[q]
  <2>1. CASE PaymentConfirms(p)
    BY <1>2, <2>1 DEF PaymentConfirms
  <2>2. CASE ~PaymentConfirms(p)
    BY <1>6, <2>2 DEF ProviderStep, Capture, CardDeclined, PaymentFails, PaymentConfirmsTooLate
  <2> QED
    BY <2>1, <2>2
<1>7. ASSUME NEW t \in Technicians, ChangeAccess(t) PROVE history[q] \subseteq history'[q]
  BY <1>7 DEF ChangeAccess
<1> QED
  BY <1>3, <1>4, <1>5, <1>6, <1>7 DEF Next

\* No step but a decision touches an accepted quote, and none takes it back.
LEMMA AcceptedStays ==
  ASSUME IInv, [Next]_vars, NEW q \in Requests, quote[q] = "accepted"
  PROVE  quote'[q] = "accepted"
<1>1. ASSUME NEW r \in Requests, DecideQuote(r) PROVE quote'[q] = "accepted"
  BY <1>1 DEF DecideQuote, IInv, TypeOK
<1>2. ASSUME NEW r \in Requests, CreateQuote(r) PROVE quote'[q] = "accepted"
  <2>1. state[r] = "diagnosing"
    BY <1>2 DEF CreateQuote, Transition, TRANSITIONS
  <2>2. r # q
    BY <2>1 DEF IInv, RecordsMatchState
  <2> QED
    BY <1>2, <2>2 DEF CreateQuote, IInv, TypeOK
<1>3. ASSUME NEW r \in Requests, CustomerStep(r) PROVE quote'[q] = "accepted"
  BY <1>1, <1>3 DEF CustomerStep, Create, Cancel, PayDiagnostic, PayAdditional, OpensPayment
<1>4. ASSUME NEW r \in Requests, StaffStep(r) PROVE quote'[q] = "accepted"
  BY <1>2, <1>4 DEF StaffStep, SetDiagnosticFee, AdminCancel, StartNoCostRepair, Schedule,
     Assign,
     AdminAction, TechnicianAction
<1>5. ASSUME NEW p \in Payments, ProviderStep(p) PROVE quote'[q] = "accepted"
  BY <1>5 DEF ProviderStep, Capture, CardDeclined, PaymentFails, PaymentConfirms,
     PaymentConfirmsTooLate, Confirms
<1> QED
  BY <1>3, <1>4, <1>5 DEF Next, vars, ChangeAccess

\* A request's payment that was made stays one.
LEMMA AdvancedStays ==
  ASSUME IInv, [Next]_vars, NEW p \in Payments, Advanced(p)
  PROVE  Advanced(p)'
<1>1. p[1] \in Requests
  BY DEF Payments
<1>2. history[p[1]] \subseteq history'[p[1]]
  BY <1>1, HistoryGrows
<1>3. quote[p[1]] = "accepted" => quote'[p[1]] = "accepted"
  BY <1>1, AcceptedStays
<1> QED
  BY <1>2, <1>3 DEF Advanced

LEMMA ToldStays ==
  ASSUME IInv, [Next]_vars
  PROVE  Snapshot.paid \subseteq Snapshot'.paid
<1>1. \A kind \in Kinds : Advanced(<<Mine, kind>>) => Advanced(<<Mine, kind>>)'
  BY AdvancedStays, TrackNumbers
<1> QED
  BY <1>1 DEF Snapshot

\* What the phone has the API do is what the API offers.
LEMMA Applied ==
  ASSUME IInv, NEW order, Apply(order)
  PROVE  Next
<1>1. Mine \in Requests
  BY TrackNumbers
<1>2. CASE order \in Kinds /\ state[Mine] = PayableIn(order) /\ OpensPayment(<<Mine, order>>)
  <2>1. CASE order = "diagnostic"
    BY <1>1, <1>2, <2>1 DEF PayableIn, PayDiagnostic, Diagnostic, Next, CustomerStep
  <2>2. CASE order = "additional"
    <3>1. state[Mine] = "awaiting_additional_payment"
      BY <1>2, <2>2 DEF PayableIn
    <3>2. quote[Mine] = "accepted"
      BY <1>1, <3>1 DEF IInv, Ledger
    <3> QED
      BY <1>1, <1>2, <2>2, <3>1, <3>2 DEF PayAdditional, Additional, Next, CustomerStep
  <2> QED
    BY <1>2, <2>1, <2>2 DEF Kinds
<1>3. CASE DecideQuote(Mine) \/ Cancel(Mine)
  BY <1>1, <1>3 DEF Next, CustomerStep
<1> QED
  BY <1>2, <1>3 DEF Apply

LEMMA TrackIsService ==
  ASSUME IInv, PhoneTypeOK, [TrackStep]_trackVars
  PROVE  [Next]_vars
<1>1. CASE UNCHANGED vars
  BY <1>1
<1>2. CASE ServeCommand \/ \E order \in mail : ServeMail(order)
  <2>1. ASSUME NEW order, Apply(order) PROVE Next
    BY <2>1, Applied
  <2> QED
    BY <1>2, <2>1 DEF ServeCommand, ServeMail
<1>3. CASE ServeIntent
  <2>1. visit.kind \in Kinds
    BY DEF PhoneTypeOK, VisitRows
  <2>2. \/ UNCHANGED vars
        \/ state[Mine] = PayableIn(visit.kind) /\ OpensPayment(<<Mine, visit.kind>>)
    BY <1>3 DEF ServeIntent
  <2>3. CASE state[Mine] = PayableIn(visit.kind) /\ OpensPayment(<<Mine, visit.kind>>)
    <3>1. Apply(visit.kind)
      BY <2>1, <2>3 DEF Apply
    <3> QED
      BY <3>1, Applied
  <2> QED
    BY <2>2, <2>3
<1>4. CASE EndSheet
  <2>1. visit.kind \in Kinds
    BY DEF PhoneTypeOK, VisitRows
  <2>2. UNCHANGED vars \/ CardDeclined(<<Mine, visit.kind>>)
    BY <1>4 DEF EndSheet
  <2>3. <<Mine, visit.kind>> \in Payments
    BY <2>1, TrackNumbers
  <2> QED
    BY <2>2, <2>3 DEF Next, ProviderStep
<1>5. CASE Behind
  <2>1. CASE Create(Mine) \/ StaffStep(Mine)
    BY <2>1, TrackNumbers DEF Next, CustomerStep
  <2>2. ASSUME NEW kind \in Kinds, ProviderOf(kind) PROVE Next
    <3>1. <<Mine, kind>> \in Payments
      BY TrackNumbers
    <3>2. ProviderStep(<<Mine, kind>>)
      BY <2>2 DEF ProviderOf, ProviderStep
    <3> QED
      BY <3>1, <3>2 DEF Next
  <2> QED
    BY <1>5, <2>1, <2>2 DEF Behind
<1>6. ASSUME TrackStep, ~ServeIntent, ~EndSheet, ~Behind, ~ServeCommand,
             ~ \E order \in mail : ServeMail(order)
      PROVE  UNCHANGED vars
  BY <1>6 DEF TrackStep, Refresh, Poll, ServePoll, EndPoll, LosePoll, OpenDetail,
     LeaveDetail, PressCancel, PressAccept, Send, LoseCommand, EndCommand, FailCommand, Start, Execute, RetryPay,
     ServeRead, EndRead, LoseRead, LoseIntent, LeavePayment, Restart, PressPay
<1>7. CASE UNCHANGED trackVars
  BY <1>7 DEF trackVars
<1> QED
  BY <1>1, <1>2, <1>3, <1>4, <1>5, <1>6, <1>7

-----------------------------------------------------------------------------

LEMMA PollKeeps ==
  ASSUME PhoneTypeOK, ToldIsAdvanced, SheetsArePressed, Snapshot \in RequestReads,
         Snapshot' \in RequestReads, Snapshot.paid \subseteq Snapshot'.paid,
         Refresh \/ LosePoll
  PROVE  PhoneTypeOK' /\ ToldIsAdvanced' /\ SheetsArePressed'
<1>1. view' \in ViewRows
  BY PhoneRows, Viewing DEF PhoneTypeOK, PollRows, Refresh, Poll, ServePoll, EndPoll,
     LosePoll, Known, Lost
<1>2. poll' \in PollRows
  BY PhoneRows DEF PhoneTypeOK, PollRows, Refresh, Poll, ServePoll, EndPoll, LosePoll, Known,
     Lost
<1>3. command' \in CommandRows /\ (command'.stage = "sent" => command'.op # "none")
  BY PhoneRows DEF PhoneTypeOK, CommandRows, NoCommand, Refresh, Poll, ServePoll, EndPoll,
     LosePoll, Known, Lost
<1>4. visit' \in VisitRows
  BY PhoneRows, TrackNumbers DEF PhoneTypeOK, VisitRows, NoVisit, Refresh, Poll, ServePoll,
     EndPoll, LosePoll, Known, Lost
<1>5. /\ front' \in {"none", "detail", "payment"}
      /\ mail' \subseteq {"accept", "decline", "cancel"} \union Kinds
  BY DEF PhoneTypeOK, CommandRows, VisitRows, Refresh, Poll, ServePoll, EndPoll, LosePoll,
     Known, Lost
<1>6. tried' \subseteq Kinds /\ visits' \in 0 .. MaxVisits /\ lost' \in 0 .. MaxLost
  BY TrackNumbers DEF PhoneTypeOK, VisitRows, Refresh, Poll, ServePoll, EndPoll, LosePoll,
     Known, Lost
<1>7. PhoneTypeOK'
  BY <1>1, <1>2, <1>3, <1>4, <1>5, <1>6 DEF PhoneTypeOK
<1>8. ToldIsAdvanced'
  BY PhoneRows DEF PhoneTypeOK, ViewRows, PollRows, CommandRows, VisitRows, ToldIsAdvanced,
     Refresh, Poll, ServePoll, EndPoll, LosePoll, Known, Lost
<1>9. SheetsArePressed'
  BY PhoneRows, TrackNumbers DEF PhoneTypeOK, VisitRows, SheetsArePressed, NoVisit, Refresh,
     Poll, ServePoll, EndPoll, LosePoll, Known, Lost
<1> QED
  BY <1>7, <1>8, <1>9

LEMMA DetailKeeps ==
  ASSUME PhoneTypeOK, ToldIsAdvanced, SheetsArePressed, Snapshot \in RequestReads,
         Snapshot' \in RequestReads, Snapshot.paid \subseteq Snapshot'.paid,
         OpenDetail \/ LeaveDetail \/ PressCancel \/ PressAccept
  PROVE  PhoneTypeOK' /\ ToldIsAdvanced' /\ SheetsArePressed'
<1>1. view' \in ViewRows
  BY PhoneRows DEF PhoneTypeOK, ViewRows, PollRows, CommandRows, VisitRows, OpenDetail,
     LeaveDetail, PressCancel, PressAccept, Send
<1>2. poll' \in PollRows
  BY PhoneRows DEF PhoneTypeOK, PollRows, OpenDetail, LeaveDetail, PressCancel, PressAccept,
     Send
<1>3. command' \in CommandRows /\ (command'.stage = "sent" => command'.op # "none")
  BY PhoneRows DEF PhoneTypeOK, CommandRows, NoCommand, OpenDetail, LeaveDetail, PressCancel,
     PressAccept, Send
<1>4. visit' \in VisitRows
  BY PhoneRows, TrackNumbers DEF PhoneTypeOK, VisitRows, NoVisit, OpenDetail, LeaveDetail,
     PressCancel, PressAccept, Send
<1>5. /\ front' \in {"none", "detail", "payment"}
      /\ mail' \subseteq {"accept", "decline", "cancel"} \union Kinds
  BY DEF PhoneTypeOK, CommandRows, VisitRows, OpenDetail, LeaveDetail, PressCancel,
     PressAccept, Send
<1>6. tried' \subseteq Kinds /\ visits' \in 0 .. MaxVisits /\ lost' \in 0 .. MaxLost
  BY TrackNumbers DEF PhoneTypeOK, VisitRows, OpenDetail, LeaveDetail, PressCancel,
     PressAccept, Send
<1>7. PhoneTypeOK'
  BY <1>1, <1>2, <1>3, <1>4, <1>5, <1>6 DEF PhoneTypeOK
<1>8. ToldIsAdvanced'
  BY ZenonT(30), PhoneRows DEF PhoneTypeOK, ViewRows, PollRows, CommandRows, VisitRows,
     ToldIsAdvanced,
     OpenDetail, LeaveDetail, PressCancel, PressAccept, Send
<1>9. SheetsArePressed'
  BY PhoneRows, TrackNumbers DEF PhoneTypeOK, VisitRows, SheetsArePressed, NoVisit,
     OpenDetail, LeaveDetail, PressCancel, PressAccept, Send
<1> QED
  BY <1>7, <1>8, <1>9

LEMMA PressKeeps ==
  ASSUME PhoneTypeOK, ToldIsAdvanced, SheetsArePressed, Snapshot \in RequestReads,
         Snapshot' \in RequestReads, Snapshot.paid \subseteq Snapshot'.paid,
         \E kind \in Kinds : PressPay(kind)
  PROVE  PhoneTypeOK' /\ ToldIsAdvanced' /\ SheetsArePressed'
<1>1. view' \in ViewRows
  BY PhoneRows DEF PhoneTypeOK, ViewRows, PollRows, CommandRows, VisitRows, PressPay,
     PushPayment
<1>2. poll' \in PollRows
  BY PhoneRows DEF PhoneTypeOK, PollRows, PressPay, PushPayment
<1>3. command' \in CommandRows /\ (command'.stage = "sent" => command'.op # "none")
  BY PhoneRows DEF PhoneTypeOK, CommandRows, NoCommand, PressPay, PushPayment
<1>4. visit' \in VisitRows
  BY Pushing DEF PhoneTypeOK, PressPay, PushPayment, Pushed
<1>5. /\ front' \in {"none", "detail", "payment"}
      /\ mail' \subseteq {"accept", "decline", "cancel"} \union Kinds
  BY DEF PhoneTypeOK, CommandRows, VisitRows, PressPay, PushPayment
<1>6. tried' \subseteq Kinds /\ visits' \in 0 .. MaxVisits /\ lost' \in 0 .. MaxLost
  BY TrackNumbers DEF PhoneTypeOK, VisitRows, PressPay, PushPayment
<1>7. PhoneTypeOK'
  BY <1>1, <1>2, <1>3, <1>4, <1>5, <1>6 DEF PhoneTypeOK
<1>8. ToldIsAdvanced'
  BY PhoneRows DEF PhoneTypeOK, ViewRows, PollRows, CommandRows, VisitRows, ToldIsAdvanced,
     PressPay, PushPayment
<1>9. SheetsArePressed'
  BY PhoneRows, TrackNumbers DEF PhoneTypeOK, VisitRows, SheetsArePressed, NoVisit, PressPay,
     PushPayment
<1> QED
  BY <1>7, <1>8, <1>9

LEMMA ServedKeeps ==
  ASSUME PhoneTypeOK, ToldIsAdvanced, SheetsArePressed, Snapshot \in RequestReads,
         Snapshot' \in RequestReads, Snapshot.paid \subseteq Snapshot'.paid,
         ServeCommand \/ \E order \in mail : ServeMail(order)
  PROVE  PhoneTypeOK' /\ ToldIsAdvanced' /\ SheetsArePressed'
<1>1. view' \in ViewRows
  BY PhoneRows DEF PhoneTypeOK, ViewRows, PollRows, CommandRows, VisitRows, ServeCommand,
     ServeMail
<1>2. poll' \in PollRows
  BY PhoneRows DEF PhoneTypeOK, PollRows, ServeCommand, ServeMail
<1>3. command' \in CommandRows /\ (command'.stage = "sent" => command'.op # "none")
  BY PhoneRows DEF PhoneTypeOK, CommandRows, NoCommand, ServeCommand, ServeMail
<1>4. visit' \in VisitRows
  BY PhoneRows, TrackNumbers DEF PhoneTypeOK, VisitRows, NoVisit, ServeCommand, ServeMail
<1>5. /\ front' \in {"none", "detail", "payment"}
      /\ mail' \subseteq {"accept", "decline", "cancel"} \union Kinds
  BY DEF PhoneTypeOK, CommandRows, VisitRows, ServeCommand, ServeMail
<1>6. tried' \subseteq Kinds /\ visits' \in 0 .. MaxVisits /\ lost' \in 0 .. MaxLost
  BY TrackNumbers DEF PhoneTypeOK, VisitRows, ServeCommand, ServeMail
<1>7. PhoneTypeOK'
  BY <1>1, <1>2, <1>3, <1>4, <1>5, <1>6 DEF PhoneTypeOK
<1>8. ToldIsAdvanced'
  BY PhoneRows DEF PhoneTypeOK, ViewRows, PollRows, CommandRows, VisitRows, ToldIsAdvanced,
     ServeCommand, ServeMail
<1>9. SheetsArePressed'
  BY PhoneRows, TrackNumbers DEF PhoneTypeOK, VisitRows, SheetsArePressed, NoVisit,
     ServeCommand, ServeMail
<1> QED
  BY <1>7, <1>8, <1>9

LEMMA CommandKeeps ==
  ASSUME PhoneTypeOK, ToldIsAdvanced, SheetsArePressed, Snapshot \in RequestReads,
         Snapshot' \in RequestReads, Snapshot.paid \subseteq Snapshot'.paid,
         LoseCommand \/ EndCommand \/ FailCommand
  PROVE  PhoneTypeOK' /\ ToldIsAdvanced' /\ SheetsArePressed'
<1>0. "additional" \in Kinds
  BY DEF Kinds
<1>1. view' \in ViewRows
  BY ZenonT(30), PhoneRows, Viewing DEF PhoneTypeOK, CommandRows, LoseCommand, EndCommand,
     FailCommand,
     Known, Lost, PushPayment, Kinds
<1>2. poll' \in PollRows
  BY PhoneRows DEF PhoneTypeOK, PollRows, LoseCommand, EndCommand, FailCommand, Known, Lost,
     PushPayment, Kinds
<1>3. command' \in CommandRows /\ (command'.stage = "sent" => command'.op # "none")
  BY PhoneRows DEF PhoneTypeOK, CommandRows, NoCommand, LoseCommand, EndCommand, FailCommand,
     Known, Lost, PushPayment, Kinds
<1>4. visit' \in VisitRows
  BY <1>0, Pushing DEF PhoneTypeOK, LoseCommand, EndCommand, FailCommand, PushPayment, Pushed
<1>5. /\ front' \in {"none", "detail", "payment"}
      /\ mail' \subseteq {"accept", "decline", "cancel"} \union Kinds
  BY DEF PhoneTypeOK, CommandRows, VisitRows, LoseCommand, EndCommand, FailCommand, Known,
     Lost, PushPayment, Kinds
<1>6. tried' \subseteq Kinds /\ visits' \in 0 .. MaxVisits /\ lost' \in 0 .. MaxLost
  BY TrackNumbers DEF PhoneTypeOK, VisitRows, LoseCommand, EndCommand, FailCommand, Known,
     Lost, PushPayment, Kinds
<1>7. PhoneTypeOK'
  BY <1>1, <1>2, <1>3, <1>4, <1>5, <1>6 DEF PhoneTypeOK
<1>8. visit' = visit \/ visit' = Pushed("additional")
  BY DEF LoseCommand, EndCommand, FailCommand, PushPayment, Pushed
<1>9. view' = view \/ view'.request = command.answer
  BY DEF LoseCommand, EndCommand, FailCommand, Known
<1>10. command'.answer = command.answer \/ command' = NoCommand
  BY DEF LoseCommand, EndCommand, FailCommand, PhoneTypeOK, CommandRows
<1>11. poll' = poll \/ poll' = Asked
  BY DEF LoseCommand, EndCommand, FailCommand
<1>12. ToldIsAdvanced'
  BY <1>0, <1>8, <1>9, <1>10, <1>11, Pushing, PhoneRows DEF ToldIsAdvanced
<1>13. SheetsArePressed'
  BY <1>0, <1>8, Pushing DEF SheetsArePressed
<1> QED
  BY <1>7, <1>12, <1>13

LEMMA ExecuteKeeps ==
  ASSUME PhoneTypeOK, ToldIsAdvanced, SheetsArePressed, Snapshot \in RequestReads,
         Snapshot' \in RequestReads, Snapshot.paid \subseteq Snapshot'.paid,
         Start \/ RetryPay
  PROVE  PhoneTypeOK' /\ ToldIsAdvanced' /\ SheetsArePressed'
<1>0. PICK n \in 0 .. MaxRetries + 1 : visit.sheets < n /\ visit' = Begun(visit, n)
  <2>1. visit.presses \in 0 .. MaxRetries + 1 /\ visit.sheets \in Nat
    BY DEF PhoneTypeOK, VisitRows
  <2>2. CASE Start
    <3>1. visit.sheets < visit.presses
      BY <2>2 DEF Start, Starts, SheetsArePressed
    <3>2. visit' = Begun(visit, visit.presses)
      BY <2>2 DEF Start, Execute, Begun
    <3> QED
      BY <2>1, <3>1, <3>2
  <2>3. CASE RetryPay
    <3>1. visit.presses + 1 \in 0 .. MaxRetries + 1 /\ visit.sheets < visit.presses + 1
      BY <2>1, <2>3, TrackNumbers DEF RetryPay, SheetsArePressed
    <3>2. visit' = Begun(visit, visit.presses + 1)
      BY <2>3 DEF RetryPay, Execute, Begun
    <3> QED
      BY <3>1, <3>2
  <2> QED
    BY <2>2, <2>3
<1>1. view' \in ViewRows
  BY PhoneRows DEF PhoneTypeOK, ViewRows, PollRows, CommandRows, VisitRows, Start, Starts,
     RetryPay, Execute, Paying
<1>2. poll' \in PollRows
  BY PhoneRows DEF PhoneTypeOK, PollRows, Start, Starts, RetryPay, Execute, Paying
<1>3. command' \in CommandRows /\ (command'.stage = "sent" => command'.op # "none")
  BY PhoneRows DEF PhoneTypeOK, CommandRows, NoCommand, Start, Starts, RetryPay, Execute, Paying
<1>4. visit' \in VisitRows /\ visit'.sheets < visit'.presses /\ visit'.answer = visit.answer
  BY <1>0, Executing DEF PhoneTypeOK
<1>5. /\ front' \in {"none", "detail", "payment"}
      /\ mail' \subseteq {"accept", "decline", "cancel"} \union Kinds
  BY DEF PhoneTypeOK, CommandRows, VisitRows, Start, Starts, RetryPay, Execute, Paying
<1>6. tried' \subseteq Kinds /\ visits' \in 0 .. MaxVisits /\ lost' \in 0 .. MaxLost
  BY TrackNumbers DEF PhoneTypeOK, VisitRows, Start, Starts, RetryPay, Execute, Paying
<1>7. PhoneTypeOK'
  BY <1>1, <1>2, <1>3, <1>4, <1>5, <1>6 DEF PhoneTypeOK
<1>8. ToldIsAdvanced'
  BY <1>4 DEF ToldIsAdvanced, Start, RetryPay, Execute, Paying
<1>9. SheetsArePressed'
  BY <1>4 DEF SheetsArePressed, VisitRows
<1> QED
  BY <1>7, <1>8, <1>9

LEMMA ReadKeeps ==
  ASSUME PhoneTypeOK, ToldIsAdvanced, SheetsArePressed, Snapshot \in RequestReads,
         Snapshot' \in RequestReads, Snapshot.paid \subseteq Snapshot'.paid,
         ServeRead \/ LoseRead
  PROVE  PhoneTypeOK' /\ ToldIsAdvanced' /\ SheetsArePressed'
<1>1. view' \in ViewRows
  BY PhoneRows DEF PhoneTypeOK, ViewRows, PollRows, CommandRows, VisitRows, ServeRead,
     LoseRead, Paying, Lost
<1>2. poll' \in PollRows
  BY PhoneRows DEF PhoneTypeOK, PollRows, ServeRead, LoseRead, Paying, Lost
<1>3. command' \in CommandRows /\ (command'.stage = "sent" => command'.op # "none")
  BY PhoneRows DEF PhoneTypeOK, CommandRows, NoCommand, ServeRead, LoseRead, Paying, Lost
<1>4. visit' \in VisitRows
  BY PhoneRows, TrackNumbers DEF PhoneTypeOK, VisitRows, NoVisit, ServeRead, LoseRead, Paying,
     Lost
<1>5. /\ front' \in {"none", "detail", "payment"}
      /\ mail' \subseteq {"accept", "decline", "cancel"} \union Kinds
  BY DEF PhoneTypeOK, CommandRows, VisitRows, ServeRead, LoseRead, Paying, Lost
<1>6. tried' \subseteq Kinds /\ visits' \in 0 .. MaxVisits /\ lost' \in 0 .. MaxLost
  BY TrackNumbers DEF PhoneTypeOK, VisitRows, ServeRead, LoseRead, Paying, Lost
<1>7. PhoneTypeOK'
  BY <1>1, <1>2, <1>3, <1>4, <1>5, <1>6 DEF PhoneTypeOK
<1>8. ToldIsAdvanced'
  BY PhoneRows DEF PhoneTypeOK, ViewRows, PollRows, CommandRows, VisitRows, ToldIsAdvanced,
     ServeRead, LoseRead, Paying, Lost
<1>9. SheetsArePressed'
  BY PhoneRows, TrackNumbers DEF PhoneTypeOK, VisitRows, SheetsArePressed, NoVisit, ServeRead,
     LoseRead, Paying, Lost
<1> QED
  BY <1>7, <1>8, <1>9

LEMMA EndReadKeeps ==
  ASSUME PhoneTypeOK, ToldIsAdvanced, SheetsArePressed, Snapshot \in RequestReads,
         Snapshot' \in RequestReads, Snapshot.paid \subseteq Snapshot'.paid,
         EndRead
  PROVE  PhoneTypeOK' /\ ToldIsAdvanced' /\ SheetsArePressed'
<1>1. view' \in ViewRows
  BY ZenonT(30), PhoneRows, Viewing DEF PhoneTypeOK, VisitRows, EndRead, Paying, Known
<1>2. poll' \in PollRows
  BY PhoneRows DEF PhoneTypeOK, PollRows, EndRead, Paying, Known
<1>3. command' \in CommandRows /\ (command'.stage = "sent" => command'.op # "none")
  BY PhoneRows DEF PhoneTypeOK, CommandRows, NoCommand, EndRead, Paying, Known
<1>4. visit' \in VisitRows
  <2>1. CASE \E result \in {"verified", "unavailable", visit.status} : visit' = Over(visit, result)
    BY <2>1, Ending DEF PhoneTypeOK
  <2>2. CASE visit' = [visit EXCEPT !.stage = "creating", !.answer = Unread]
    BY <2>2, PhoneRows DEF PhoneTypeOK, VisitRows
  <2> QED
    BY <2>1, <2>2 DEF EndRead, Over
<1>5. /\ front' \in {"none", "detail", "payment"}
      /\ mail' \subseteq {"accept", "decline", "cancel"} \union Kinds
  BY DEF PhoneTypeOK, CommandRows, VisitRows, EndRead, Paying, Known
<1>6. tried' \subseteq Kinds /\ visits' \in 0 .. MaxVisits /\ lost' \in 0 .. MaxLost
  BY TrackNumbers DEF PhoneTypeOK, VisitRows, EndRead, Paying, Known
<1>7. PhoneTypeOK'
  BY <1>1, <1>2, <1>3, <1>4, <1>5, <1>6 DEF PhoneTypeOK
<1>8. ToldIsAdvanced'
  <2>1. view' = view \/ view'.request = visit.answer
    BY DEF EndRead, Known
  <2>2. visit'.answer = Unread
    BY DEF EndRead, PhoneTypeOK, VisitRows
  <2> QED
    BY <2>1, <2>2, PhoneRows DEF ToldIsAdvanced, EndRead, Paying
<1>9. SheetsArePressed'
  BY ZenonT(30), PhoneRows, TrackNumbers DEF PhoneTypeOK, VisitRows, SheetsArePressed,
     NoVisit, EndRead,
     Paying, Known
<1> QED
  BY <1>7, <1>8, <1>9

LEMMA IntentKeeps ==
  ASSUME PhoneTypeOK, ToldIsAdvanced, SheetsArePressed, Snapshot \in RequestReads,
         Snapshot' \in RequestReads, Snapshot.paid \subseteq Snapshot'.paid,
         ServeIntent \/ LoseIntent
  PROVE  PhoneTypeOK' /\ ToldIsAdvanced' /\ SheetsArePressed'
<1>1. view' \in ViewRows
  BY PhoneRows DEF PhoneTypeOK, ViewRows, PollRows, CommandRows, VisitRows, ServeIntent,
     LoseIntent, Paying, Lost
<1>2. poll' \in PollRows
  BY PhoneRows DEF PhoneTypeOK, PollRows, ServeIntent, LoseIntent, Paying, Lost
<1>3. command' \in CommandRows /\ (command'.stage = "sent" => command'.op # "none")
  BY PhoneRows DEF PhoneTypeOK, CommandRows, NoCommand, ServeIntent, LoseIntent, Paying, Lost
<1>4. visit' \in VisitRows /\ visit'.answer = visit.answer /\ visit'.presses = visit.presses
      /\ \/ visit'.stage = "sheet" /\ visit'.sheets = visit.sheets + 1 /\ visit.sheets < visit.presses
         \/ visit'.stage = "rereading" /\ visit'.sheets = visit.sheets
  <2>1. CASE LoseIntent
    BY <2>1 DEF PhoneTypeOK, VisitRows, LoseIntent
  <2>2. CASE ServeIntent
    <3>1. visit.sheets < visit.presses /\ visit.sheets + 1 \in Nat
      BY <2>2 DEF ServeIntent, SheetsArePressed, PhoneTypeOK, VisitRows
    <3>2. \/ visit' = [visit EXCEPT !.stage = "sheet", !.sheets = @ + 1]
          \/ visit' = [visit EXCEPT !.stage = "rereading", !.status = "retry"]
      BY <2>2 DEF ServeIntent
    <3> QED
      BY <3>1, <3>2 DEF PhoneTypeOK, VisitRows
  <2> QED
    BY <2>1, <2>2
<1>5. /\ front' \in {"none", "detail", "payment"}
      /\ mail' \subseteq {"accept", "decline", "cancel"} \union Kinds
  BY DEF PhoneTypeOK, CommandRows, VisitRows, ServeIntent, LoseIntent, Paying, Lost
<1>6. tried' \subseteq Kinds /\ visits' \in 0 .. MaxVisits /\ lost' \in 0 .. MaxLost
  BY TrackNumbers DEF PhoneTypeOK, VisitRows, ServeIntent, LoseIntent, Paying, Lost
<1>7. PhoneTypeOK'
  BY <1>1, <1>2, <1>3, <1>4, <1>5, <1>6 DEF PhoneTypeOK
<1>8. ToldIsAdvanced'
  BY PhoneRows DEF PhoneTypeOK, ViewRows, PollRows, CommandRows, VisitRows, ToldIsAdvanced,
     ServeIntent, LoseIntent, Paying, Lost
<1>9. visit.sheets \in Nat /\ visit.presses \in Nat
  BY TrackNumbers DEF PhoneTypeOK, VisitRows
<1>10. SheetsArePressed'
  BY <1>4, <1>9 DEF SheetsArePressed
<1> QED
  BY <1>7, <1>8, <1>10

LEMMA SheetKeeps ==
  ASSUME PhoneTypeOK, ToldIsAdvanced, SheetsArePressed, Snapshot \in RequestReads,
         Snapshot' \in RequestReads, Snapshot.paid \subseteq Snapshot'.paid,
         EndSheet
  PROVE  PhoneTypeOK' /\ ToldIsAdvanced' /\ SheetsArePressed'
<1>1. view' \in ViewRows
  BY PhoneRows DEF PhoneTypeOK, ViewRows, PollRows, CommandRows, VisitRows, EndSheet, Paying
<1>2. poll' \in PollRows
  BY PhoneRows DEF PhoneTypeOK, PollRows, EndSheet, Paying
<1>3. command' \in CommandRows /\ (command'.stage = "sent" => command'.op # "none")
  BY PhoneRows DEF PhoneTypeOK, CommandRows, NoCommand, EndSheet, Paying
<1>4. visit' \in VisitRows
  BY PhoneRows, TrackNumbers DEF PhoneTypeOK, VisitRows, NoVisit, EndSheet, Paying
<1>5. /\ front' \in {"none", "detail", "payment"}
      /\ mail' \subseteq {"accept", "decline", "cancel"} \union Kinds
  BY DEF PhoneTypeOK, CommandRows, VisitRows, EndSheet, Paying
<1>6. tried' \subseteq Kinds /\ visits' \in 0 .. MaxVisits /\ lost' \in 0 .. MaxLost
  BY TrackNumbers DEF PhoneTypeOK, VisitRows, EndSheet, Paying
<1>7. PhoneTypeOK'
  BY <1>1, <1>2, <1>3, <1>4, <1>5, <1>6 DEF PhoneTypeOK
<1>8. ToldIsAdvanced'
  BY PhoneRows DEF PhoneTypeOK, ViewRows, PollRows, CommandRows, VisitRows, ToldIsAdvanced,
     EndSheet, Paying
<1>9. SheetsArePressed'
  BY PhoneRows, TrackNumbers DEF PhoneTypeOK, VisitRows, SheetsArePressed, NoVisit, EndSheet,
     Paying
<1> QED
  BY <1>7, <1>8, <1>9

LEMMA LeaveKeeps ==
  ASSUME PhoneTypeOK, ToldIsAdvanced, SheetsArePressed, Snapshot \in RequestReads,
         Snapshot' \in RequestReads, Snapshot.paid \subseteq Snapshot'.paid,
         LeavePayment \/ Restart
  PROVE  PhoneTypeOK' /\ ToldIsAdvanced' /\ SheetsArePressed'
<1>1. view' \in ViewRows
  BY PhoneRows, Viewing DEF PhoneTypeOK, LeavePayment, Restart, Lost
<1>2. poll' \in PollRows
  BY PhoneRows DEF PhoneTypeOK, PollRows, LeavePayment, Restart, Lost
<1>3. command' \in CommandRows /\ (command'.stage = "sent" => command'.op # "none")
  BY PhoneRows DEF PhoneTypeOK, CommandRows, NoCommand, LeavePayment, Restart, Lost
<1>4. visit' \in VisitRows
  BY PhoneRows, TrackNumbers DEF PhoneTypeOK, VisitRows, NoVisit, LeavePayment, Restart, Lost
<1>5. /\ front' \in {"none", "detail", "payment"}
      /\ mail' \subseteq {"accept", "decline", "cancel"} \union Kinds
  BY DEF PhoneTypeOK, CommandRows, VisitRows, LeavePayment, Restart, Lost
<1>6. tried' \subseteq Kinds /\ visits' \in 0 .. MaxVisits /\ lost' \in 0 .. MaxLost
  BY TrackNumbers DEF PhoneTypeOK, VisitRows, LeavePayment, Restart, Lost
<1>7. PhoneTypeOK'
  BY <1>1, <1>2, <1>3, <1>4, <1>5, <1>6 DEF PhoneTypeOK
<1>8. ToldIsAdvanced'
  BY PhoneRows DEF PhoneTypeOK, ViewRows, PollRows, CommandRows, VisitRows, ToldIsAdvanced,
     LeavePayment, Restart, Lost
<1>9. SheetsArePressed'
  BY PhoneRows, TrackNumbers DEF PhoneTypeOK, VisitRows, SheetsArePressed, NoVisit,
     LeavePayment, Restart, Lost
<1> QED
  BY <1>7, <1>8, <1>9

LEMMA TrackKeeps == TrackInvariant /\ [TrackStep]_trackVars => TrackInvariant'
<1> SUFFICES ASSUME TrackInvariant, [TrackStep]_trackVars PROVE TrackInvariant'
  OBVIOUS
<1>1. IInv /\ PhoneTypeOK /\ ToldIsAdvanced /\ SheetsArePressed
  BY DEF TrackInvariant
<1>2. [Next]_vars
  BY <1>1, TrackIsService
<1>3. IInv'
  BY <1>1, <1>2, Inductive
<1>4. Snapshot.paid \subseteq Snapshot'.paid
  BY <1>1, <1>2, ToldStays
<1>5. Snapshot \in RequestReads
  BY <1>1, SnapshotRead
<1>6. Snapshot' \in RequestReads
  BY <1>3, TrackNumbers DEF IInv, TypeOK, Snapshot, RequestReads
<1>7. PhoneTypeOK' /\ ToldIsAdvanced' /\ SheetsArePressed'
  <2>1. CASE UNCHANGED phoneVars
    BY <1>1, <1>4, <2>1 DEF phoneVars, PhoneTypeOK, ToldIsAdvanced, SheetsArePressed
  <2>2. CASE Refresh \/ LosePoll
    BY <1>1, <1>4, <1>5, <1>6, <2>2, PollKeeps
  <2>3. CASE OpenDetail \/ LeaveDetail \/ PressCancel \/ PressAccept
    BY <1>1, <1>4, <1>5, <1>6, <2>3, DetailKeeps
  <2>4. CASE \E kind \in Kinds : PressPay(kind)
    BY <1>1, <1>4, <1>5, <1>6, <2>4, PressKeeps
  <2>5. CASE ServeCommand \/ \E order \in mail : ServeMail(order)
    BY <1>1, <1>4, <1>5, <1>6, <2>5, ServedKeeps
  <2>6. CASE LoseCommand \/ EndCommand \/ FailCommand
    BY <1>1, <1>4, <1>5, <1>6, <2>6, CommandKeeps
  <2>7. CASE Start \/ RetryPay
    BY <1>1, <1>4, <1>5, <1>6, <2>7, ExecuteKeeps
  <2>8. CASE ServeRead \/ LoseRead
    BY <1>1, <1>4, <1>5, <1>6, <2>8, ReadKeeps
  <2>9. CASE EndRead
    BY <1>1, <1>4, <1>5, <1>6, <2>9, EndReadKeeps
  <2>10. CASE ServeIntent \/ LoseIntent
    BY <1>1, <1>4, <1>5, <1>6, <2>10, IntentKeeps
  <2>11. CASE EndSheet
    BY <1>1, <1>4, <1>5, <1>6, <2>11, SheetKeeps
  <2>12. CASE LeavePayment \/ Restart
    BY <1>1, <1>4, <1>5, <1>6, <2>12, LeaveKeeps
  <2> QED
    BY <2>1, <2>2, <2>3, <2>4, <2>5, <2>6, <2>7, <2>8, <2>9, <2>10, <2>11, <2>12
       DEF TrackStep, trackVars, Behind
<1> QED
  BY <1>3, <1>7 DEF TrackInvariant

LEMMA Tracked == ServiceSpec => []TrackInvariant
<1>1. ServiceInit => TrackInvariant
  BY TrackStarts DEF ServiceInit, TrackInit
<1>2. [ServiceNext]_serviceVars => [TrackStep]_trackVars
  BY DEF ServiceNext, serviceVars
<1> QED
  BY <1>1, <1>2, TrackKeeps, PTL DEF ServiceSpec

-----------------------------------------------------------------------------
LEMMA Registered == ServiceSpec => []RegInvariant
<1>1. ServiceInit => RegInvariant
  BY RegStarts DEF ServiceInit
<1>2. [ServiceNext]_serviceVars => [RegStep]_regVars
  BY DEF ServiceNext, serviceVars
<1> QED
  BY <1>1, <1>2, RegKeeps, PTL DEF ServiceSpec

\* The photo the customer picked is never deleted while a machine may show it,
\* and leaves nothing behind that the phone does not know how to remove, for any
\* bounds.
THEOREM ThePhotoIsSafe == ServiceSpec => []PhotoIsSafe
<1>1. RegInvariant => NothingIsLeftBehind
  <2>1. \A o \in Ops : o # 0
    BY RegistrationAssumption DEF Ops
  <2> QED
    BY <2>1 DEF RegInvariant, ScreenFollows, KeptIsKnown, NothingIsLeftBehind
<1>2. RegInvariant => PhotoIsSafe
  BY <1>1 DEF RegInvariant, PhotoIsSafe
<1> QED
  BY Registered, <1>2, PTL

\* The phone says a payment was received only when it was charged and counted,
\* and brings up a sheet only when the customer pressed for one: for any number
\* of requests, screens, retries and lost messages.
THEOREM PaymentsAreHonest == ServiceSpec => []PaymentIsHonest
<1>1. TrackInvariant => VerifiedMeansPaid
  <2> SUFFICES ASSUME TrackInvariant, Verified(visit.kind) 
               PROVE  LET p == <<Mine, visit.kind>> IN
                      payment[p] = "confirmed" /\ charge[p] = "captured" /\ p \notin ignored
    BY DEF VerifiedMeansPaid
  <2>1. visit.kind \in Kinds
    BY DEF TrackInvariant, PhoneTypeOK, VisitRows
  <2>2. visit.kind \in Snapshot.paid
    BY DEF TrackInvariant, ToldIsAdvanced, Verified
  <2>3. <<Mine, visit.kind>> \in Payments
    BY <2>1, TrackNumbers
  <2>4. Advanced(<<Mine, visit.kind>>)
    BY <2>2 DEF Snapshot
  <2> QED
    BY <2>3, <2>4 DEF TrackInvariant, IInv, PaymentsAccounted
<1>2. TrackInvariant => OneSheetPerPress
  BY DEF TrackInvariant, SheetsArePressed, OneSheetPerPress
<1> QED
  BY Tracked, <1>1, <1>2, PTL DEF PaymentIsHonest

\* Whatever the phone's screens, retries and lost messages have the API and the
\* provider do is a step of ServiceWorkflow or none.
THEOREM PhoneStaysInTheWorkflow == ServiceSpec => [][Next]_vars
<1>1. TrackInvariant /\ [ServiceNext]_serviceVars => [Next]_vars
  BY TrackIsService DEF TrackInvariant, ServiceNext, serviceVars
<1> QED
  BY Tracked, <1>1, PTL DEF ServiceSpec

\* Following a request, every variable of the phone, the API and the provider
\* keeps its shape.
THEOREM TrackingIsTyped == ServiceSpec => []TrackTypeOK
<1>1. TrackInvariant => TrackTypeOK
  BY DEF TrackInvariant, IInv, PhoneTypeOK, ViewRows, PollRows, CommandRows, VisitRows,
     TrackTypeOK
<1> QED
  BY Tracked, <1>1, PTL

-----------------------------------------------------------------------------
(***************************************************************************)
(* Asking for service                                                      *)
(***************************************************************************)

IntakeTexts == Texts \union {NoText}
IntakeDrafts == [id: Nat, text: IntakeTexts, submission: [text: IntakeTexts, existing: SUBSET Nat]]
Operations == [op: {"load", "save", "clear"}, by: Screens, draft: IntakeDrafts, wakes: BOOLEAN]
HookRows == [kind: {"edit", "review"}, ready: BOOLEAN, error: BOOLEAN, draft: IntakeDrafts]
Stages == {"idle", "noting", "noted", "saving", "posting", "created", "refused", "clearing",
           "settling", "undoing", "checking"}

IntakeShape ==
  /\ stored \in IntakeDrafts
  /\ io \in Seq(Operations)
  /\ stack \in Seq(Screens) /\ opened \in Nat
  /\ hook \in [Screens -> HookRows]
  /\ attempt \in [Screens -> [stage: Stages, draft: IntakeDrafts]]
  /\ wire \subseteq [by: Screens, draft: IntakeDrafts, heard: BOOLEAN]
  /\ requests \in Seq([draft: Nat, text: IntakeTexts])
  /\ drafts \in Nat

Busy(i) == attempt[i].stage # "idle"
Saving(n) == io[n].op = "save"
Awaited(n) == io[n].op # "load" /\ io[n].wakes
Wanted(n) == io[n].op = "load" /\ io[n].wakes

\* A screen is opened once, on top of the others.
StackGrows ==
  /\ \A a \in DOMAIN stack : stack[a] <= opened
  /\ \A a, b \in DOMAIN stack : a < b => stack[a] < stack[b]
  /\ \A n \in DOMAIN io : io[n].by <= opened
  /\ \A i \in Screens : i > opened => ~Busy(i)

\* The button is at work on the screen in front, or on one that was left.
OnlyFrontWorks == \A i \in Screens : Mounted(i) /\ Busy(i) => InFront(i)

\* A read is wanted once by a mounted screen, and by the one in front after the
\* others; until then that one can neither be used nor be at work.
LoadsOfTheFront ==
  /\ \A n \in DOMAIN io : Wanted(n) => Mounted(io[n].by)
  /\ \A m, n \in DOMAIN io : Wanted(m) /\ Wanted(n) /\ io[m].by = io[n].by => m = n
  /\ \A n \in DOMAIN io, k \in Screens : Wanted(n) /\ InFront(k) =>
       /\ ~hook[k].ready
       /\ io[n].by # k => ~Busy(k) /\ \E q \in DOMAIN io : q > n /\ Wanted(q) /\ io[q].by = k

\* While a read of the screen in front is to come, wanted or not, it cannot be used.
LateReads ==
  /\ \A n \in DOMAIN io : io[n].op = "load" /\ InFront(io[n].by) => ~hook[io[n].by].ready
  /\ \A m, n \in DOMAIN io : m < n /\ Wanted(m) /\ io[n].op = "load" => io[n].by # io[m].by

\* No write is behind a read; the screen in front has seen the writes of others.
WritesComeFirst ==
  /\ \A m, n \in DOMAIN io : m < n /\ Wanted(m) => ~Saving(n)
  /\ \A n \in DOMAIN io, k \in Screens : Saving(n) /\ InFront(k) /\ k # io[n].by =>
       ~hook[k].ready /\ ~Busy(k)

\* Whoever waits for a write or for the clearing waits for one, at its stage.
OneIsAwaited ==
  /\ \A n \in DOMAIN io : io[n].op = "clear" =>
       /\ io[n].wakes /\ io[n].draft = EmptyDraft
       /\ attempt[io[n].by].stage \in {"clearing", "settling"}
  /\ \A n \in DOMAIN io : Saving(n) /\ io[n].wakes =>
       /\ attempt[io[n].by].stage \in {"noting", "saving", "undoing"}
       /\ attempt[io[n].by].stage # "undoing" => io[n].draft = attempt[io[n].by].draft
  /\ \A m, n \in DOMAIN io :
       Awaited(m) /\ Awaited(n) /\ io[m].by = io[n].by => m = n
  /\ \A i \in Screens : attempt[i].stage \in {"noting", "saving"} =>
       \E n \in DOMAIN io : Saving(n) /\ io[n].wakes /\ io[n].by = i

\* What is empty is the empty draft, and only what is filled in is posted.
Empties(x) == x.id = 0 => x = EmptyDraft

DraftsAreFilled ==
  /\ Empties(stored)
  /\ \A n \in DOMAIN io : Empties(io[n].draft)
  /\ \A i \in Screens : Empties(hook[i].draft) /\ Empties(attempt[i].draft)
  /\ \A post \in wire : Locked(post.draft) /\ Empties(post.draft)
  /\ \A r \in DOMAIN requests : requests[r].draft # 0

\* Only the review submits, and only what is filled in.
ReviewsSubmit ==
  \A i \in Screens :
    /\ attempt[i].stage \in {"noting", "noted"} =>
         ~Locked(attempt[i].draft) /\ Complete(attempt[i].draft)
    /\ attempt[i].stage \in {"saving", "posting", "created", "refused", "clearing",
                             "settling", "checking"} =>
         Locked(attempt[i].draft)
    /\ attempt[i].stage \in {"noted", "saving", "posting", "created", "refused", "undoing"} =>
         hook[i].kind = "review"

\* The phone waits for the answer to the POST of an attempt.
HeardPosts ==
  \A post \in wire : post.heard =>
    attempt[post.by].stage = "posting" /\ attempt[post.by].draft = post.draft

IdsAreCounted ==
  /\ stored.id <= drafts
  /\ \A n \in DOMAIN io : io[n].draft.id <= drafts
  /\ \A i \in Screens : hook[i].draft.id <= drafts /\ attempt[i].draft.id <= drafts
  /\ \A post \in wire : post.draft.id <= drafts
  /\ \A r \in DOMAIN requests : requests[r].draft <= drafts

\* One draft is written at a time, and it is the one of the screen in front.
Same(x, y) == x = 0 \/ y = 0 \/ x = y
OfDraft(x, id) == x = 0 \/ x = id

OneDraftIsWritten ==
  /\ \A m, n \in DOMAIN io : Saving(m) /\ Saving(n) => Same(io[m].draft.id, io[n].draft.id)
  /\ \A n \in DOMAIN io : Saving(n) => Same(io[n].draft.id, stored.id)
  /\ \A k \in Screens : InFront(k) /\ hook[k].ready =>
       /\ OfDraft(stored.id, hook[k].draft.id)
       /\ \A n \in DOMAIN io : Saving(n) => OfDraft(io[n].draft.id, hook[k].draft.id)
  /\ \A k \in Screens :
       InFront(k) /\ hook[k].kind = "review" /\ attempt[k].stage \notin {"idle", "checking", "clearing", "settling"} =>
       /\ OfDraft(stored.id, attempt[k].draft.id)
       /\ OfDraft(hook[k].draft.id, attempt[k].draft.id)
       /\ \A n \in DOMAIN io : Saving(n) => OfDraft(io[n].draft.id, attempt[k].draft.id)

\* A submission is on its way once: about to be posted, posted, refused or accepted.
Holds(i, d) == attempt[i].stage \in {"saving", "refused"} /\ attempt[i].draft.id = d
Posted(d) == \E post \in wire : post.draft.id = d
Requested(d) == \E r \in DOMAIN requests : requests[r].draft = d

OnItsWay(d) ==
  Posted(d) \/ Requested(d) \/ \E i \in Screens : Holds(i, d)

OnItsWayOnce(d) ==
  /\ \A r, s \in DOMAIN requests : requests[r].draft = d /\ requests[s].draft = d => r = s
  /\ \A p, q \in wire : p.draft.id = d /\ q.draft.id = d => p = q
  /\ \A i, j \in Screens : Holds(i, d) /\ Holds(j, d) => i = j
  /\ Requested(d) => ~Posted(d)
  /\ \A i \in Screens : Holds(i, d) => ~Posted(d) /\ ~Requested(d)

\* From then on nobody has it unlocked: it is written locked, read after that, and
\* no other review is about to submit it.
LockedOnItsWay(d) ==
  /\ (\A i \in Screens : ~(Holds(i, d) /\ attempt[i].stage = "saving")) =>
       /\ stored.id = d => Locked(stored)
       /\ \A n \in DOMAIN io : Saving(n) /\ io[n].draft.id = d => Locked(io[n].draft)
  /\ \A m, n \in DOMAIN io :
       /\ Saving(m) /\ io[m].wakes /\ Holds(io[m].by, d) /\ m < n /\ Saving(n) /\ io[n].draft.id = d =>
            Locked(io[n].draft)
  /\ \A k \in Screens : InFront(k) /\ hook[k].ready /\ hook[k].draft.id = d => Locked(hook[k].draft)
  /\ \A k \in Screens :
       Mounted(k) /\ hook[k].kind = "review" /\ attempt[k].stage \in {"noting", "noted"} =>
         attempt[k].draft.id # d

Tokens ==
  \A d \in Nat \ {0} : d \notin astray => OnItsWayOnce(d) /\ (OnItsWay(d) => LockedOnItsWay(d))

-----------------------------------------------------------------------------
\* With no interference of a screen that was left:

Pending(x) == x.id # 0 /\ ~Requested(x.id)
InChain(i) == attempt[i].stage \in {"noted", "saving", "posting", "refused", "checking"}

\* What is stored, written, shown or submitted without being a request yet is the
\* latest draft; what is past its first write is the stored one.
LatestDraft ==
  /\ Pending(stored) => stored.id = drafts
  /\ \A n \in DOMAIN io : Saving(n) => io[n].draft.id # 0 /\ (Pending(io[n].draft) => io[n].draft.id = drafts)
  /\ \A k \in Screens : InFront(k) /\ hook[k].ready =>
       /\ Pending(hook[k].draft) => hook[k].draft.id = drafts
       /\ hook[k].error => hook[k].draft.id # 0
  /\ \A k \in Screens :
       InFront(k) /\ hook[k].ready /\ Pending(hook[k].draft)
         /\ (hook[k].kind = "review" \/ Locked(hook[k].draft)) => stored.id = hook[k].draft.id
  /\ \A i \in Screens : InChain(i) /\ Pending(attempt[i].draft) => stored.id = attempt[i].draft.id
  /\ \A i \in Screens :
       InFront(i) /\ attempt[i].stage \in {"noting", "noted", "saving", "posting", "refused"}
         /\ Pending(attempt[i].draft) => hook[i].draft.id = attempt[i].draft.id
  /\ \A post \in wire : Pending(post.draft) => stored.id = post.draft.id
  /\ \A i \in Screens : attempt[i].stage \in {"created", "clearing", "settling"} => Requested(attempt[i].draft.id)

\* Every request there was not when it was submitted is its own.
KnowsTheOthers(x) == Locked(x) /\ Pending(x) => DOMAIN requests \subseteq x.submission.existing

OthersAreKnown ==
  /\ KnowsTheOthers(stored)
  /\ \A n \in DOMAIN io : Saving(n) => KnowsTheOthers(io[n].draft)
  /\ \A k \in Screens : InFront(k) /\ hook[k].ready => KnowsTheOthers(hook[k].draft)
  /\ \A i \in Screens : InChain(i) => KnowsTheOthers(attempt[i].draft)

\* What the screen in front shows is what was written last.
FrontIsWritten ==
  \A k \in Screens : InFront(k) /\ hook[k].ready =>
    /\ \A n \in DOMAIN io : Saving(n) /\ (\A q \in DOMAIN io : q > n => ~Saving(q)) =>
         io[n].draft = hook[k].draft
    /\ (\A n \in DOMAIN io : ~Saving(n)) /\ ~hook[k].error =>
         hook[k].draft = stored \/ Requested(hook[k].draft.id)

IntakeOrder == /\ StackGrows /\ OnlyFrontWorks /\ LoadsOfTheFront /\ WritesComeFirst
               /\ OneIsAwaited /\ HeardPosts

Undisturbed == astray = {} => LatestDraft /\ OthersAreKnown /\ FrontIsWritten

IntakeInvariant ==
  /\ IntakeShape /\ IntakeOrder /\ LateReads /\ DraftsAreFilled /\ ReviewsSubmit
  /\ IdsAreCounted /\ OneDraftIsWritten
  /\ Tokens /\ Undisturbed

\* x is the operation y; a read of one of S is for nobody any more.
Carries(x, y, S) ==
  /\ x.op = y.op /\ x.by = y.by /\ x.draft = y.draft
  /\ x.wakes => y.wakes
  /\ x.op # "load" \/ x.by \notin S => x.wakes = y.wakes
  /\ x.op = "load" /\ x.by \in S => ~x.wakes

\* new is what is left of old after its first s operations; Longer has one more.
Shorter(new, old, s, S) ==
  /\ new \in Seq(Operations) /\ Len(new) = Len(old) - s
  /\ \A n \in DOMAIN new : n + s \in DOMAIN old /\ Carries(new[n], old[n + s], S)
  /\ \A n \in DOMAIN old : n > s =>
       \E m \in DOMAIN new : m + s = n /\ Carries(new[m], old[n], S)

Longer(new, old, s, S, e) ==
  /\ new \in Seq(Operations) /\ Len(new) = Len(old) - s + 1
  /\ \A n \in DOMAIN new :
       \/ n < Len(new) /\ n + s \in DOMAIN old /\ Carries(new[n], old[n + s], S)
       \/ n = Len(new) /\ new[n] = e
  /\ Len(new) \in DOMAIN new
  /\ \A n \in DOMAIN old : n > s =>
       \E m \in DOMAIN new : m + s = n /\ m < Len(new) /\ Carries(new[m], old[n], S)

Reading(i) == [op |-> "load", by |-> i, draft |-> EmptyDraft, wakes |-> TRUE]
Writing(i, draft, wakes) == [op |-> "save", by |-> i, draft |-> draft, wakes |-> wakes]
Wiping(i) == [op |-> "clear", by |-> i, draft |-> EmptyDraft, wakes |-> TRUE]

LEMMA EmptyIsDraft == EmptyDraft \in IntakeDrafts /\ EmptyDraft.id = 0 /\ ~Locked(EmptyDraft)
  BY DEF EmptyDraft, IntakeDrafts, IntakeTexts, NoSubmission, Locked

LEMMA OperationRows ==
  ASSUME NEW i \in Screens, NEW draft \in IntakeDrafts, NEW wakes \in BOOLEAN
  PROVE  /\ Reading(i) \in Operations /\ Writing(i, draft, wakes) \in Operations
         /\ Wiping(i) \in Operations
  BY EmptyIsDraft DEF Reading, Writing, Wiping, Operations

LEMMA OvertakenIs ==
  ASSUME NEW ops \in Seq(Operations), NEW S
  PROVE  Shorter(Overtaken(ops, S), ops, 0, S)
<1> DEFINE E(n) == IF ops[n].op = "load" /\ ops[n].by \in S
                   THEN [ops[n] EXCEPT !.wakes = FALSE] ELSE ops[n]
<1>1. Overtaken(ops, S) = [n \in 1 .. Len(ops) |-> E(n)]
  BY DEF Overtaken
<1>2. ASSUME NEW n \in 1 .. Len(ops)
      PROVE  E(n) \in Operations /\ Carries(E(n), ops[n], S)
  <2>1. ops[n] \in Operations
    OBVIOUS
  <2> QED
    BY <2>1 DEF Operations, Carries
<1> HIDE DEF E
<1>3. Overtaken(ops, S) \in Seq(Operations)
  BY <1>1, <1>2
<1>4. Len(Overtaken(ops, S)) = Len(ops) /\ \A n \in 1 .. Len(ops) : Overtaken(ops, S)[n] = E(n)
  BY <1>1, <1>3
<1> QED
  BY <1>2, <1>3, <1>4 DEF Shorter

LEMMA TailIs ==
  ASSUME NEW ops \in Seq(Operations), ops # <<>>
  PROVE  /\ Shorter(Tail(ops), ops, 1, {}) /\ 1 \in DOMAIN ops
         /\ Head(ops) = ops[1] /\ Head(ops) \in Operations
<1>1. /\ Tail(ops) \in Seq(Operations) /\ Len(Tail(ops)) = Len(ops) - 1
      /\ \A n \in 1 .. Len(ops) - 1 : Tail(ops)[n] = ops[n + 1]
      /\ Head(ops) = ops[1] /\ Head(ops) \in Operations /\ 1 \in DOMAIN ops
  OBVIOUS
<1>2. \A x : Carries(x, x, {})
  BY DEF Carries
<1>3. \A n \in DOMAIN Tail(ops) : n + 1 \in DOMAIN ops /\ Tail(ops)[n] = ops[n + 1]
  BY <1>1
<1>4. \A n \in DOMAIN ops : n > 1 => n - 1 \in DOMAIN Tail(ops) /\ Tail(ops)[n - 1] = ops[n]
  BY <1>1
<1> QED
  BY <1>1, <1>2, <1>3, <1>4 DEF Shorter

LEMMA AppendIs ==
  ASSUME NEW old \in Seq(Operations), NEW s \in {0, 1}, NEW S, NEW ops,
         Shorter(ops, old, s, S), NEW e \in Operations
  PROVE  Longer(Append(ops, e), old, s, S, e)
<1>1. /\ Append(ops, e) \in Seq(Operations) /\ Len(Append(ops, e)) = Len(ops) + 1
      /\ \A n \in 1 .. Len(ops) : Append(ops, e)[n] = ops[n]
      /\ Append(ops, e)[Len(ops) + 1] = e
      /\ ops \in Seq(Operations) /\ Len(ops) \in Nat
  BY DEF Shorter
<1>2. /\ \A n \in DOMAIN Append(ops, e) : n \in DOMAIN ops \/ n = Len(ops) + 1
      /\ \A n \in DOMAIN ops : n \in DOMAIN Append(ops, e) /\ n < Len(ops) + 1
      /\ Len(ops) + 1 \in DOMAIN Append(ops, e)
  BY <1>1
<1> QED
  BY <1>1, <1>2 DEF Shorter, Longer

\* Overtaking once more.
LEMMA CarriedOn ==
  ASSUME NEW old \in Seq(Operations), NEW s \in {0, 1}, NEW S, NEW T, NEW mid,
         Shorter(mid, old, s, S), NEW ops, Shorter(ops, mid, 0, T)
  PROVE  Shorter(ops, old, s, S \union T)
<1>1. \A x, y, z : Carries(x, y, T) /\ Carries(y, z, S) => Carries(x, z, S \union T)
  BY DEF Carries
<1>2. ops \in Seq(Operations) /\ mid \in Seq(Operations) /\ Len(ops) = Len(mid)
      /\ Len(mid) = Len(old) - s
  BY DEF Shorter
<1>3. \A n \in DOMAIN ops : n \in DOMAIN mid /\ Carries(ops[n], mid[n], T)
  BY <1>2 DEF Shorter
<1>4. \A n \in DOMAIN ops : n + s \in DOMAIN old /\ Carries(mid[n], old[n + s], S)
  BY <1>3 DEF Shorter
<1>5. ASSUME NEW n \in DOMAIN old, n > s
      PROVE  \E m \in DOMAIN ops : m + s = n /\ Carries(ops[m], old[n], S \union T)
  <2>1. PICK m \in DOMAIN mid : m + s = n /\ Carries(mid[m], old[n], S)
    BY <1>5 DEF Shorter
  <2>2. m \in DOMAIN ops /\ Carries(ops[m], mid[m], T)
    BY <1>2, <1>3
  <2> QED
    BY <1>1, <2>1, <2>2
<1>6. \A n \in DOMAIN ops : Carries(ops[n], old[n + s], S \union T)
  BY <1>1, <1>3, <1>4
<1> QED
  BY <1>2, <1>4, <1>5, <1>6 DEF Shorter

LEMMA LoadIs ==
  ASSUME NEW old \in Seq(Operations), NEW s \in {0, 1}, NEW S, NEW ops,
         Shorter(ops, old, s, S), NEW i \in Screens
  PROVE  Longer(Load(ops, i), old, s, S \union {i}, Reading(i))
<1>1. ops \in Seq(Operations)
  BY DEF Shorter
<1>2. Shorter(Overtaken(ops, {i}), old, s, S \union {i})
  BY <1>1, OvertakenIs, CarriedOn
<1>3. Reading(i) \in Operations
  BY EmptyIsDraft DEF Reading, Operations
<1> QED
  BY <1>2, <1>3, AppendIs DEF Load, Reading

LEMMA SaveIs ==
  ASSUME NEW ops \in Seq(Operations), NEW i \in Screens, NEW draft \in IntakeDrafts,
         NEW wakes \in BOOLEAN
  PROVE  Longer(Save(ops, i, draft, wakes), ops, 0, {i}, Writing(i, draft, wakes))
<1>1. Shorter(Overtaken(ops, {i}), ops, 0, {i})
  BY OvertakenIs
<1>2. Writing(i, draft, wakes) \in Operations
  BY OperationRows
<1> QED
  BY <1>1, <1>2, AppendIs DEF Save, Writing

LEMMA SameIs ==
  ASSUME NEW ops \in Seq(Operations)
  PROVE  Shorter(ops, ops, 0, {})
<1>1. \A x : Carries(x, x, {})
  BY DEF Carries
<1> QED
  BY <1>1 DEF Shorter

-----------------------------------------------------------------------------
LEMMA StackPushed ==
  ASSUME NEW s \in Seq(Screens), NEW x \in Screens
  PROVE  /\ Append(s, x) \in Seq(Screens) /\ ToSet(Append(s, x)) = ToSet(s) \union {x}
         /\ Append(s, x) # <<>> /\ Last(Append(s, x)) = x
<1>1. /\ Append(s, x) \in Seq(Screens) /\ Len(Append(s, x)) = Len(s) + 1
      /\ \A a \in 1 .. Len(s) : Append(s, x)[a] = s[a]
      /\ Append(s, x)[Len(s) + 1] = x
  OBVIOUS
<1>2. \A y : y \in ToSet(Append(s, x)) <=> y \in ToSet(s) \/ y = x
  BY <1>1 DEF ToSet
<1>3. Append(s, x) # <<>>
  BY <1>1
<1> QED
  BY <1>1, <1>2, <1>3 DEF Last

LEMMA StackPopped ==
  ASSUME NEW s \in Seq(Screens), s # <<>>
  PROVE  /\ Front(s) \in Seq(Screens) /\ Len(Front(s)) = Len(s) - 1
         /\ \A a \in 1 .. Len(s) - 1 : Front(s)[a] = s[a]
         /\ ToSet(s) = ToSet(Front(s)) \union {Last(s)} /\ Last(s) \in Screens
<1>1. /\ Front(s) \in Seq(Screens) /\ Len(Front(s)) = Len(s) - 1
      /\ \A a \in 1 .. Len(s) - 1 : Front(s)[a] = s[a]
  <2>1. Len(s) \in Nat /\ Len(s) >= 1 /\ Front(s) = SubSeq(s, 1, Len(s) - 1)
    BY DEF Front
  <2>2. \A a \in 1 .. Len(s) : s[a] \in Screens
    OBVIOUS
  <2>3. Front(s) = [a \in 1 .. Len(s) - 1 |-> s[a]]
    BY <2>1
  <2>4. PICK k \in Nat : k = Len(s) - 1
    BY <2>1
  <2>5. Front(s) \in [1 .. k -> Screens]
    <3>1. Front(s) = [a \in 1 .. k |-> s[a]]
      BY <2>3, <2>4
    <3>2. \A a \in 1 .. k : s[a] \in Screens
      BY <2>1, <2>2, <2>4
    <3> HIDE <2>1, <2>2, <2>3, <2>4
    <3> QED
      BY <3>1, <3>2
  <2>6. Front(s) \in Seq(Screens) /\ Len(Front(s)) = k
    BY <2>5
  <2> QED
    BY <2>1, <2>3, <2>4, <2>6
<1>2. \A y : y \in ToSet(s) <=> y \in ToSet(Front(s)) \/ y = Last(s)
  BY <1>1 DEF ToSet, Last
<1> QED
  BY <1>1, <1>2 DEF Last

QueueOrder ==
  StackGrows /\ OnlyFrontWorks /\ LoadsOfTheFront /\ WritesComeFirst /\ OneIsAwaited

LEMMA Fronts ==
  ASSUME IntakeShape, NEW i, InFront(i)
  PROVE  i \in Screens /\ Mounted(i) /\ \A k : InFront(k) => k = i
<1>1. stack \in Seq(Screens) /\ stack # <<>> /\ stack[Len(stack)] = i
  BY DEF IntakeShape, InFront, Last
<1>2. Len(stack) \in DOMAIN stack /\ stack[Len(stack)] \in Screens
  BY <1>1
<1> QED
  BY <1>1, <1>2 DEF Mounted, ToSet, InFront, Last

LEMMA MountedIsOpen ==
  ASSUME IntakeShape, StackGrows, NEW i, Mounted(i)
  PROVE  i \in Screens /\ i <= opened
  BY DEF IntakeShape, StackGrows, Mounted, ToSet

LEMMA OperationsAre ==
  ASSUME IntakeShape, NEW n \in DOMAIN io
  PROVE  /\ n \in Nat /\ io[n] \in Operations
         /\ io[n].op \in {"load", "save", "clear"} /\ io[n].by \in Screens
         /\ io[n].draft \in IntakeDrafts /\ io[n].wakes \in BOOLEAN
<1>1. io[n] \in Operations /\ n \in Nat
  BY DEF IntakeShape
<1> QED
  BY <1>1 DEF Operations

LEMMA ScreensAre == IntakeShape => opened \in Nat /\ \A j \in Screens : j \in Nat
  BY IntakeAssumption DEF IntakeShape, Screens

StaysBehind(n, i, e) ==
  \/ /\ n < Len(io') /\ n \in DOMAIN io
     /\ io'[n].op = io[n].op /\ io'[n].by = io[n].by /\ io'[n].draft = io[n].draft
     /\ io'[n].wakes => io[n].wakes
     /\ io'[n].op # "load" => io'[n].wakes = io[n].wakes
     /\ io'[n].op = "load" /\ io'[n].by = i => ~io'[n].wakes
  \/ n = Len(io') /\ io'[n] = e

LEMMA WriteKeepsOrder ==
  ASSUME IntakeShape, QueueOrder, NEW i \in Screens, InFront(i),
         hook[i].ready \/ Busy(i),
         NEW d \in IntakeDrafts, NEW w \in BOOLEAN,
         Longer(io', io, 0, {i}, Writing(i, d, w)),
         UNCHANGED <<stack, opened>>,
         \A j \in Screens : hook'[j].ready = hook[j].ready,
         \A j \in Screens : j # i => attempt'[j] = attempt[j],
         IF w THEN /\ attempt[i].stage \notin {"noting", "saving", "undoing", "clearing", "settling"}
                   /\ attempt'[i].stage \in {"noting", "saving", "undoing"}
                   /\ attempt'[i].stage # "undoing" => attempt'[i].draft = d
         ELSE attempt'[i] = attempt[i]
  PROVE  QueueOrder'
<1> DEFINE e == Writing(i, d, w)
<1> USE DEF QueueOrder
<1>1. \A k : InFront(k) => k = i
  BY Fronts
<1>2. e.op = "save" /\ e.by = i /\ e.draft = d /\ e.wakes = w
  BY DEF Writing
<1> HIDE DEF e
<1>3. io \in Seq(Operations) /\ io' \in Seq(Operations) /\ Len(io') = Len(io) + 1
  BY DEF IntakeShape, Longer
<1>4. \A n \in DOMAIN io' : StaysBehind(n, i, e)
  BY <1>3 DEF Longer, Carries, StaysBehind, e
<1>5. i <= opened
  BY Fronts, MountedIsOpen
<1>6. StackGrows'
  <2>1. \A j \in Screens : j > opened => ~Busy(j)'
    BY <1>5, ScreensAre DEF StackGrows, Busy
  <2> QED
    BY <1>2, <1>4, <1>5, <2>1 DEF StackGrows, StaysBehind
<1>7. OnlyFrontWorks'
  BY DEF OnlyFrontWorks, Mounted, InFront, Busy
<1>8. \A n \in DOMAIN io' : ~Wanted(n)'
  BY <1>2, <1>4 DEF LoadsOfTheFront, Wanted, StaysBehind
<1>9. LoadsOfTheFront'
  BY <1>8 DEF LoadsOfTheFront
<1>10. \A n \in DOMAIN io' : Saving(n)' => io'[n].by = i
  BY <1>2, <1>4 DEF WritesComeFirst, Saving, StaysBehind
<1>11. WritesComeFirst'
  BY <1>1, <1>8, <1>10 DEF WritesComeFirst, InFront
<1>12. w => \A n \in DOMAIN io : Awaited(n) => io[n].by # i
  BY OperationsAre DEF OneIsAwaited, Awaited, Saving
<1>13. OneIsAwaited'
  <2>1. (\A n \in DOMAIN io : io[n].op = "clear" =>
           /\ io[n].wakes /\ io[n].draft = EmptyDraft
           /\ attempt[io[n].by].stage \in {"clearing", "settling"})'
    <3> SUFFICES ASSUME NEW n \in DOMAIN io', io'[n].op = "clear"
                 PROVE  /\ io'[n].wakes /\ io'[n].draft = EmptyDraft
                        /\ attempt'[io'[n].by].stage \in {"clearing", "settling"}
      OBVIOUS
    <3>1. /\ n \in DOMAIN io /\ io[n].op = "clear" /\ io'[n].by = io[n].by
          /\ io'[n].draft = io[n].draft /\ io'[n].wakes = io[n].wakes
      BY <1>2, <1>4 DEF StaysBehind
    <3>2. io[n].by # i \/ ~w
      BY <1>12, <3>1 DEF OneIsAwaited, Awaited
    <3>3. attempt'[io[n].by] = attempt[io[n].by]
      BY <3>1, <3>2, OperationsAre
    <3> QED
      BY <3>1, <3>3 DEF OneIsAwaited
  <2>2. (\A n \in DOMAIN io : Saving(n) /\ io[n].wakes =>
           /\ attempt[io[n].by].stage \in {"noting", "saving", "undoing"}
           /\ attempt[io[n].by].stage # "undoing" => io[n].draft = attempt[io[n].by].draft)'
    <3> SUFFICES ASSUME NEW n \in DOMAIN io', io'[n].op = "save", io'[n].wakes
                 PROVE  /\ attempt'[io'[n].by].stage \in {"noting", "saving", "undoing"}
                        /\ attempt'[io'[n].by].stage # "undoing" =>
                             io'[n].draft = attempt'[io'[n].by].draft
      BY DEF Saving
    <3>1. CASE n = Len(io') /\ io'[n] = e
      BY <1>2, <3>1
    <3>2. CASE /\ n \in DOMAIN io /\ io[n].op = "save" /\ io'[n].by = io[n].by
               /\ io'[n].draft = io[n].draft /\ io[n].wakes
      <4>1. io[n].by # i \/ ~w
        BY <1>12, <3>2 DEF OneIsAwaited, Awaited
      <4>2. attempt'[io[n].by] = attempt[io[n].by]
        BY <3>2, <4>1, OperationsAre
      <4> QED
        BY <3>2, <4>2 DEF OneIsAwaited, Saving
    <3> QED
      BY <1>4, <3>1, <3>2 DEF StaysBehind
  <2>3. (\A m, n \in DOMAIN io : Awaited(m) /\ Awaited(n) /\ io[m].by = io[n].by => m = n)'
    BY <1>2, <1>4, <1>12 DEF OneIsAwaited, Awaited, StaysBehind
  <2>4. ASSUME NEW j \in Screens, attempt'[j].stage \in {"noting", "saving"}
        PROVE  \E n \in DOMAIN io' : io'[n].op = "save" /\ io'[n].wakes /\ io'[n].by = j
    <3>1. CASE j = i /\ w
      <4>1. Len(io') \in DOMAIN io' /\ io'[Len(io')] = e
        BY DEF Longer, e
      <4> QED
        BY <1>2, <3>1, <4>1
    <3>2. CASE j # i \/ ~w
      <4>1. PICK n \in DOMAIN io : io[n].op = "save" /\ io[n].wakes /\ io[n].by = j
        BY <2>4, <3>2 DEF OneIsAwaited, Saving
      <4>2. n > 0
        BY <4>1, OperationsAre, <1>3
      <4>3. PICK m \in DOMAIN io' : m + 0 = n /\ Carries(io'[m], io[n], {i})
        BY <4>1, <4>2 DEF Longer
      <4> QED
        BY <4>1, <4>3 DEF Carries
    <3> QED
      BY <3>1, <3>2
  <2> QED
    BY <2>1, <2>2, <2>3, <2>4 DEF OneIsAwaited, Saving
<1> QED
  BY <1>6, <1>7, <1>9, <1>11, <1>13

\* No write and no clearing is begun, and those after the first s operations stay.
NothingBegun(s) ==
  /\ \A n \in DOMAIN io' : io'[n].op # "load" =>
       /\ n + s \in DOMAIN io
       /\ io'[n].op = io[n + s].op /\ io'[n].by = io[n + s].by
       /\ io'[n].draft = io[n + s].draft /\ io'[n].wakes = io[n + s].wakes
  /\ \A n \in DOMAIN io : n > s /\ io[n].op # "load" =>
       \E m \in DOMAIN io' :
         /\ m + s = n
         /\ io'[m].op = io[n].op /\ io'[m].by = io[n].by
         /\ io'[m].draft = io[n].draft /\ io'[m].wakes = io[n].wakes

LEMMA ShorterBegins ==
  ASSUME IntakeShape, NEW s \in {0, 1}, NEW S, Shorter(io', io, s, S)
  PROVE  NothingBegun(s)
<1>1. \A n \in DOMAIN io' : n + s \in DOMAIN io /\ Carries(io'[n], io[n + s], S)
  BY DEF Shorter
<1>2. \A n \in DOMAIN io : n > s => \E m \in DOMAIN io' : m + s = n /\ Carries(io'[m], io[n], S)
  BY DEF Shorter
<1> QED
  BY <1>1, <1>2 DEF Carries, NothingBegun

LEMMA LoadBegins ==
  ASSUME IntakeShape, NEW s \in {0, 1}, NEW S, NEW i, Longer(io', io, s, S, Reading(i))
  PROVE  NothingBegun(s)
  BY DEF Longer, Carries, NothingBegun, Reading

LEMMA AwaitedKeeps ==
  ASSUME IntakeShape, OneIsAwaited, NEW s \in {0, 1}, NothingBegun(s), io' \in Seq(Operations),
         \A j \in Screens :
           \/ /\ attempt'[j] = attempt[j]
              /\ \A n \in DOMAIN io : n <= s /\ Awaited(n) => io[n].by # j
           \/ /\ attempt'[j].stage \notin {"noting", "saving"}
              /\ \A n \in DOMAIN io : n > s /\ Awaited(n) => io[n].by # j
  PROVE  OneIsAwaited'
<1>1. \A n \in DOMAIN io' : n \in Nat /\ io'[n] \in Operations /\ n + s > s
  OBVIOUS
<1>2. ASSUME NEW n \in DOMAIN io', Awaited(n)'
      PROVE  /\ n + s \in DOMAIN io /\ Awaited(n + s) /\ n + s > s
             /\ io'[n].by = io[n + s].by /\ io[n + s].by \in Screens
             /\ attempt'[io[n + s].by] = attempt[io[n + s].by]
  <2>1. /\ n + s \in DOMAIN io /\ Awaited(n + s) /\ n + s > s /\ io'[n].by = io[n + s].by
    BY <1>1, <1>2 DEF NothingBegun, Awaited
  <2>2. io[n + s].by \in Screens
    BY <2>1, OperationsAre
  <2> QED
    BY <2>1, <2>2
<1>3. (\A n \in DOMAIN io : io[n].op = "clear" =>
         /\ io[n].wakes /\ io[n].draft = EmptyDraft
         /\ attempt[io[n].by].stage \in {"clearing", "settling"})'
  <2> SUFFICES ASSUME NEW n \in DOMAIN io', io'[n].op = "clear"
               PROVE  /\ io'[n].wakes /\ io'[n].draft = EmptyDraft
                      /\ attempt'[io'[n].by].stage \in {"clearing", "settling"}
    OBVIOUS
  <2>1. /\ n + s \in DOMAIN io /\ io[n + s].op = "clear" /\ io'[n].by = io[n + s].by
        /\ io'[n].draft = io[n + s].draft /\ io'[n].wakes = io[n + s].wakes
    BY DEF NothingBegun
  <2>2. /\ io[n + s].wakes /\ io[n + s].draft = EmptyDraft
        /\ attempt[io[n + s].by].stage \in {"clearing", "settling"}
    BY <2>1 DEF OneIsAwaited
  <2>3. Awaited(n)'
    BY <2>1, <2>2 DEF Awaited
  <2> QED
    BY <2>1, <2>2, <2>3, <1>2
<1>4. (\A n \in DOMAIN io : Saving(n) /\ io[n].wakes =>
         /\ attempt[io[n].by].stage \in {"noting", "saving", "undoing"}
         /\ attempt[io[n].by].stage # "undoing" => io[n].draft = attempt[io[n].by].draft)'
  <2> SUFFICES ASSUME NEW n \in DOMAIN io', io'[n].op = "save", io'[n].wakes
               PROVE  /\ attempt'[io'[n].by].stage \in {"noting", "saving", "undoing"}
                      /\ attempt'[io'[n].by].stage # "undoing" =>
                           io'[n].draft = attempt'[io'[n].by].draft
    BY DEF Saving
  <2>1. /\ n + s \in DOMAIN io /\ io[n + s].op = "save" /\ io'[n].by = io[n + s].by
        /\ io'[n].draft = io[n + s].draft /\ io[n + s].wakes
    BY DEF NothingBegun
  <2>2. Awaited(n)'
    BY DEF Awaited
  <2> QED
    BY <2>1, <2>2, <1>2 DEF OneIsAwaited, Saving
<1>5. ASSUME NEW m \in DOMAIN io', NEW n \in DOMAIN io', Awaited(m)', Awaited(n)',
             io'[m].by = io'[n].by
      PROVE  m = n
  <2>1. /\ m + s \in DOMAIN io /\ Awaited(m + s) /\ n + s \in DOMAIN io /\ Awaited(n + s)
        /\ io[m + s].by = io[n + s].by
    BY <1>2, <1>5
  <2>2. m + s = n + s
    BY <2>1 DEF OneIsAwaited
  <2> QED
    BY <2>2, <1>1
<1>6. ASSUME NEW j \in Screens, attempt'[j].stage \in {"noting", "saving"}
      PROVE  \E n \in DOMAIN io' : io'[n].op = "save" /\ io'[n].wakes /\ io'[n].by = j
  <2>1. /\ attempt'[j] = attempt[j]
        /\ \A n \in DOMAIN io : n <= s /\ Awaited(n) => io[n].by # j
    BY <1>6
  <2>2. PICK n \in DOMAIN io : io[n].op = "save" /\ io[n].wakes /\ io[n].by = j
    BY <2>1, <1>6 DEF OneIsAwaited, Saving
  <2>3. n > s
    BY <2>1, <2>2, OperationsAre DEF Awaited
  <2> QED
    BY <2>2, <2>3 DEF NothingBegun
<1> QED
  BY <1>3, <1>4, <1>5, <1>6 DEF OneIsAwaited, Saving

\* A screen comes to the front, or the one in front is entered again.
LEMMA FocusKeepsOrder ==
  ASSUME IntakeShape, StackGrows, LoadsOfTheFront, WritesComeFirst, IntakeShape',
         NEW i \in Screens, NEW s \in {0, 1}, i <= opened',
         NEW S, Longer(io', io, s, S, Reading(i)), i \in S,
         \A k : InFront(k)' => k = i, Mounted(i)', opened <= opened',
         ~hook'[i].ready,
         \A j \in Screens : Busy(j)' /\ Mounted(j)' => j = i,
         \A n \in DOMAIN io : n > s /\ Wanted(n) => io[n].by \in ToSet(stack') \/ io[n].by \in S,
         Busy(i)' => \A n \in DOMAIN io : n > s /\ (Wanted(n) \/ Saving(n)) => io[n].by = i,
         \A j \in Screens : Busy(j)' => j <= opened',
         \A a \in DOMAIN stack' : stack'[a] <= opened',
         \A a, b \in DOMAIN stack' : a < b => stack'[a] < stack'[b],
         InFront(i)'
  PROVE  StackGrows' /\ OnlyFrontWorks' /\ LoadsOfTheFront' /\ WritesComeFirst'
<1> DEFINE e == Reading(i)
<1>2. e.op = "load" /\ e.by = i /\ e.wakes = TRUE
  BY DEF Reading
<1> HIDE DEF e
<1>3. /\ io \in Seq(Operations) /\ io' \in Seq(Operations) /\ Len(io') \in DOMAIN io'
      /\ io'[Len(io')] = e
  BY DEF IntakeShape, Longer, e
<1>4. \A n \in DOMAIN io' :
        \/ /\ n < Len(io') /\ n + s \in DOMAIN io /\ n + s > s
           /\ io'[n].op = io[n + s].op /\ io'[n].by = io[n + s].by
           /\ io'[n].wakes => io[n + s].wakes
           /\ io'[n].op = "load" /\ io'[n].by \in S => ~io'[n].wakes
        \/ n = Len(io') /\ io'[n] = e
  BY <1>3 DEF Longer, Carries, e
<1>5. StackGrows'
  <2>1. \A n \in DOMAIN io' : io'[n].by <= opened'
    <3> SUFFICES ASSUME NEW n \in DOMAIN io'
                 PROVE  io'[n].by <= opened'
      OBVIOUS
    <3>1. opened \in Nat /\ opened' \in Nat
      BY DEF IntakeShape
    <3>2. CASE n + s \in DOMAIN io /\ io'[n].by = io[n + s].by
      <4>1. io[n + s].by <= opened /\ io[n + s].by \in Screens
        BY <3>2, OperationsAre DEF StackGrows
      <4>2. io[n + s].by \in Nat
        BY <4>1, ScreensAre
      <4> QED
        BY <3>1, <3>2, <4>1, <4>2
    <3> QED
      BY <1>2, <1>4, <3>2
  <2>2. \A j \in Screens : j > opened' => ~Busy(j)'
    BY ScreensAre DEF IntakeShape
  <2> QED
    BY <2>1, <2>2 DEF StackGrows
<1>6. OnlyFrontWorks'
  BY DEF OnlyFrontWorks
<1>7. LoadsOfTheFront'
  <2>1. \A n \in DOMAIN io' : Wanted(n)' =>
          \/ /\ n < Len(io') /\ n + s \in DOMAIN io /\ n + s > s /\ Wanted(n + s)
             /\ io'[n].by = io[n + s].by /\ io'[n].by \notin S
          \/ n = Len(io') /\ io'[n] = e
    BY <1>4 DEF Wanted
  <2>2. \A n \in DOMAIN io' : Wanted(n)' => io'[n].by \in ToSet(stack')
    BY <1>2, <2>1 DEF Mounted
  <2>3. ASSUME NEW m \in DOMAIN io', NEW n \in DOMAIN io', Wanted(m)', Wanted(n)',
               io'[m].by = io'[n].by
        PROVE  m = n
    <3>1. CASE io'[m].by \in S
      BY <1>2, <2>1, <2>3, <3>1
    <3>2. CASE io'[m].by \notin S
      <4>1. /\ m + s \in DOMAIN io /\ Wanted(m + s) /\ n + s \in DOMAIN io /\ Wanted(n + s)
            /\ io[m + s].by = io[n + s].by
        BY <1>2, <2>1, <2>3, <3>2
      <4>2. m + s = n + s
        BY <4>1 DEF LoadsOfTheFront
      <4> QED
        BY <4>2, <1>3
    <3> QED
      BY <3>1, <3>2
  <2>4. ASSUME NEW n \in DOMAIN io', NEW k \in Screens, Wanted(n)', InFront(k)'
        PROVE  /\ ~hook'[k].ready
               /\ io'[n].by # k => /\ ~Busy(k)'
                                   /\ \E q \in DOMAIN io' : /\ q > n /\ io'[q].op = "load"
                                                           /\ io'[q].wakes /\ io'[q].by = k
    <3>1. k = i
      BY <2>4
    <3>2. ASSUME io'[n].by # k
          PROVE  ~Busy(k)' /\ Len(io') > n
      <4>1. n < Len(io') /\ n + s \in DOMAIN io /\ n + s > s /\ Wanted(n + s) /\ io[n + s].by # i
        BY <1>2, <2>1, <2>4, <3>1, <3>2
      <4>2. ~Busy(k)'
        BY <3>1, <4>1
      <4> QED
        BY <1>3, <4>1, <4>2
    <3>3. io'[Len(io')].op = "load" /\ io'[Len(io')].wakes /\ io'[Len(io')].by = k
      BY <1>2, <1>3, <3>1
    <3> QED
      BY <3>1, <3>2, <3>3, <1>3
  <2> QED
    BY <2>2, <2>3, <2>4 DEF LoadsOfTheFront, Wanted, Mounted
<1>8. WritesComeFirst'
  <2>1. \A n \in DOMAIN io' : Saving(n)' =>
          n < Len(io') /\ n + s \in DOMAIN io /\ n + s > s /\ Saving(n + s) /\ io'[n].by = io[n + s].by
    BY <1>2, <1>4 DEF Saving
  <2>2. ASSUME NEW m \in DOMAIN io', NEW n \in DOMAIN io', m < n, Wanted(m)', Saving(n)'
        PROVE  FALSE
    <3>1. n + s \in DOMAIN io /\ Saving(n + s) /\ n < Len(io')
      BY <2>1, <2>2
    <3>2. m + s \in DOMAIN io /\ Wanted(m + s)
      BY <1>3, <1>4, <2>2, <3>1 DEF Wanted
    <3>3. m + s < n + s
      BY <2>2, <1>3
    <3> QED
      BY <3>1, <3>2, <3>3 DEF WritesComeFirst
  <2>3. ASSUME NEW n \in DOMAIN io', NEW k \in Screens, Saving(n)', InFront(k)', k # io'[n].by
        PROVE  ~hook'[k].ready /\ ~Busy(k)'
    <3>1. k = i
      BY <2>3
    <3>2. n + s \in DOMAIN io /\ n + s > s /\ Saving(n + s) /\ io[n + s].by # i
      BY <2>1, <2>3, <3>1
    <3> QED
      BY <3>1, <3>2
  <2> QED
    BY <2>2, <2>3 DEF WritesComeFirst
<1> QED
  BY <1>5, <1>6, <1>7, <1>8

\* The first s operations are done, and nothing comes to the front.
LEMMA PopKeepsOrder ==
  ASSUME IntakeShape, IntakeShape', StackGrows, OnlyFrontWorks, LoadsOfTheFront, WritesComeFirst,
         NEW s \in {0, 1}, Shorter(io', io, s, {}), UNCHANGED <<stack, opened>>,
         \A k \in Screens : Busy(k)' => Busy(k),
         \A k \in Screens : InFront(k) /\ hook'[k].ready =>
           \/ hook[k].ready
           \/ \A n \in DOMAIN io : n > s => ~Wanted(n) /\ ~Saving(n)
  PROVE  StackGrows' /\ OnlyFrontWorks' /\ LoadsOfTheFront' /\ WritesComeFirst'
<1>1. \A n \in DOMAIN io' : /\ n + s \in DOMAIN io /\ n + s > s
                            /\ io'[n].op = io[n + s].op /\ io'[n].by = io[n + s].by
                            /\ io'[n].wakes = io[n + s].wakes
  <2>1. \A n \in DOMAIN io' : n + s > s
    BY DEF IntakeShape
  <2> QED
    BY <2>1 DEF Shorter, Carries
<1>2. StackGrows'
  BY <1>1 DEF StackGrows
<1>3. OnlyFrontWorks'
  BY DEF OnlyFrontWorks, Mounted, InFront
<1>4. (\A n \in DOMAIN io : Wanted(n) => Mounted(io[n].by))'
  BY <1>1 DEF LoadsOfTheFront, Wanted, Mounted
<1>5. (\A m, n \in DOMAIN io : Wanted(m) /\ Wanted(n) /\ io[m].by = io[n].by => m = n)'
  <2> SUFFICES ASSUME NEW m \in DOMAIN io', NEW n \in DOMAIN io', Wanted(m)', Wanted(n)',
                      io'[m].by = io'[n].by
               PROVE  m = n
    OBVIOUS
  <2>1. /\ m + s \in DOMAIN io /\ Wanted(m + s) /\ n + s \in DOMAIN io /\ Wanted(n + s)
        /\ io[m + s].by = io[n + s].by
    BY <1>1 DEF Wanted
  <2>2. m + s = n + s
    BY <2>1 DEF LoadsOfTheFront
  <2> QED
    BY <2>2 DEF IntakeShape
<1>6. ASSUME NEW n \in DOMAIN io', NEW k \in Screens, Wanted(n)', InFront(k)'
      PROVE  /\ ~hook'[k].ready
             /\ io'[n].by # k => /\ ~Busy(k)'
                                 /\ \E q \in DOMAIN io' : /\ q > n /\ io'[q].op = "load"
                                                         /\ io'[q].wakes /\ io'[q].by = k
  <2>1. n + s \in DOMAIN io /\ n + s > s /\ Wanted(n + s) /\ io[n + s].by = io'[n].by /\ InFront(k)
    BY <1>1, <1>6 DEF Wanted, InFront
  <2>2. ~hook'[k].ready
    BY <2>1 DEF LoadsOfTheFront
  <2>3. ASSUME io'[n].by # k
        PROVE  /\ ~Busy(k)'
               /\ \E q \in DOMAIN io' : /\ q > n /\ io'[q].op = "load"
                                       /\ io'[q].wakes /\ io'[q].by = k
    <3>1. ~Busy(k)
      BY <2>1, <2>3 DEF LoadsOfTheFront
    <3>2. PICK q \in DOMAIN io : q > n + s /\ Wanted(q) /\ io[q].by = k
      BY <2>1, <2>3 DEF LoadsOfTheFront
    <3>3. n \in Nat /\ q \in Nat
      BY DEF IntakeShape
    <3>4. q > s
      BY <2>1, <3>2, <3>3
    <3>5. PICK m \in DOMAIN io' : m + s = q /\ Carries(io'[m], io[q], {})
      BY <3>4 DEF Shorter
    <3>6. m > n
      BY <3>2, <3>3, <3>5 DEF IntakeShape
    <3> QED
      BY <3>1, <3>2, <3>5, <3>6 DEF Carries, Wanted
  <2> QED
    BY <2>2, <2>3
<1>7. LoadsOfTheFront'
  BY <1>4, <1>5, <1>6 DEF LoadsOfTheFront, Wanted
<1>8. ASSUME NEW m \in DOMAIN io', NEW n \in DOMAIN io', m < n, Wanted(m)', Saving(n)'
      PROVE  FALSE
  <2>1. m + s \in DOMAIN io /\ Wanted(m + s) /\ n + s \in DOMAIN io /\ Saving(n + s)
    BY <1>1, <1>8 DEF Wanted, Saving
  <2>2. m + s < n + s
    BY <1>8 DEF IntakeShape
  <2> QED
    BY <2>1, <2>2 DEF WritesComeFirst
<1>9. ASSUME NEW n \in DOMAIN io', NEW k \in Screens, Saving(n)', InFront(k)', k # io'[n].by
      PROVE  ~hook'[k].ready /\ ~Busy(k)'
  <2>1. n + s \in DOMAIN io /\ n + s > s /\ Saving(n + s) /\ io[n + s].by # k /\ InFront(k)
    BY <1>1, <1>9 DEF Saving, InFront
  <2> QED
    BY <2>1 DEF WritesComeFirst
<1>10. WritesComeFirst'
  BY <1>8, <1>9 DEF WritesComeFirst
<1> QED
  BY <1>2, <1>3, <1>7, <1>10

\* Everything that was open is closed.
LEMMA ClosedKeepsOrder ==
  ASSUME IntakeShape, IntakeShape', StackGrows, NEW s \in {0, 1}, NEW S,
         Shorter(io', io, s, S), \A n \in DOMAIN io : Wanted(n) => io[n].by \in S,
         stack' = <<>>, UNCHANGED opened, \A k \in Screens : Busy(k)' => Busy(k)
  PROVE  StackGrows' /\ OnlyFrontWorks' /\ LoadsOfTheFront' /\ WritesComeFirst'
<1>1. \A n \in DOMAIN io' : /\ n + s \in DOMAIN io
                            /\ io'[n].op = io[n + s].op /\ io'[n].by = io[n + s].by
                            /\ (io'[n].wakes => io[n + s].wakes)
                            /\ (io'[n].op = "load" /\ io'[n].by \in S => ~io'[n].wakes)
  BY DEF Shorter, Carries
<1>2. \A n \in DOMAIN io' : ~Wanted(n)'
  BY <1>1 DEF Wanted
<1>3. \A k : ~Mounted(k)' /\ ~InFront(k)'
  BY DEF Mounted, InFront, ToSet
<1> QED
  BY <1>1, <1>2, <1>3 DEF StackGrows, OnlyFrontWorks, LoadsOfTheFront, WritesComeFirst

\* The stored draft is about to be cleared.
LEMMA ClearKeepsOrder ==
  ASSUME IntakeShape, IntakeShape', QueueOrder, NEW i \in Screens, Busy(i),
         Longer(io', io, 0, {}, Wiping(i)), UNCHANGED <<stack, opened, hook>>,
         attempt[i].stage \notin {"noting", "saving", "undoing", "clearing", "settling"},
         attempt'[i].stage \in {"clearing", "settling"},
         \A j \in Screens : j # i => attempt'[j] = attempt[j]
  PROVE  QueueOrder'
<1> DEFINE e == Wiping(i)
<1> USE DEF QueueOrder
<1>1. e.op = "clear" /\ e.by = i /\ e.wakes = TRUE /\ e.draft = EmptyDraft
  BY DEF Wiping
<1> HIDE DEF e
<1>2. /\ io \in Seq(Operations) /\ io' \in Seq(Operations) /\ Len(io') \in DOMAIN io'
      /\ io'[Len(io')] = e
  <2>1. io \in Seq(Operations) /\ io' \in Seq(Operations) /\ Len(io') \in DOMAIN io'
    BY DEF IntakeShape, Longer
  <2>2. Len(io') < Len(io') \/ io'[Len(io')] = e
    BY <2>1 DEF Longer, e
  <2> QED
    BY <2>1, <2>2
<1>3. \A n \in DOMAIN io' :
        \/ /\ n < Len(io') /\ n \in DOMAIN io
           /\ io'[n].op = io[n].op /\ io'[n].by = io[n].by
           /\ io'[n].draft = io[n].draft /\ io'[n].wakes = io[n].wakes
        \/ n = Len(io') /\ io'[n] = e
  BY <1>2 DEF Longer, Carries, e
<1>4. \A k \in Screens : Busy(k)' => Busy(k)
  BY DEF Busy
<1>5. StackGrows'
  <2>1. i <= opened
    BY ScreensAre DEF StackGrows
  <2> QED
    BY <1>1, <1>3, <1>4, <2>1 DEF StackGrows
<1>6. OnlyFrontWorks'
  BY <1>4 DEF OnlyFrontWorks, Mounted, InFront
<1>7. \A n \in DOMAIN io' : Wanted(n)' \/ Saving(n)' =>
        /\ n \in DOMAIN io /\ io'[n].op = io[n].op /\ io'[n].by = io[n].by
        /\ io'[n].wakes = io[n].wakes
  BY <1>1, <1>3 DEF Wanted, Saving
<1>8. LoadsOfTheFront'
  <2>1. \A n \in DOMAIN io' : Wanted(n)' => Wanted(n) /\ n \in DOMAIN io /\ io'[n].by = io[n].by
    BY <1>7 DEF Wanted
  <2>2. ASSUME NEW n \in DOMAIN io', NEW k \in Screens, Wanted(n)', InFront(k)', io'[n].by # k
        PROVE  /\ ~Busy(k)'
               /\ \E q \in DOMAIN io' : /\ q > n /\ io'[q].op = "load"
                                       /\ io'[q].wakes /\ io'[q].by = k
    <3>1. InFront(k) /\ ~Busy(k)
      BY <2>1, <2>2 DEF LoadsOfTheFront, InFront
    <3>2. PICK q \in DOMAIN io : q > n /\ Wanted(q) /\ io[q].by = k
      BY <2>1, <2>2, <3>1 DEF LoadsOfTheFront
    <3>3. q > 0
      BY <3>2 DEF IntakeShape
    <3>4. PICK m \in DOMAIN io' : m + 0 = q /\ Carries(io'[m], io[q], {})
      BY <3>3 DEF Longer
    <3>5. m = q
      BY <3>4, <1>2
    <3> QED
      BY <1>4, <3>1, <3>2, <3>4, <3>5 DEF Carries, Wanted
  <2>3. (\A n \in DOMAIN io : Wanted(n) => Mounted(io[n].by))'
    BY <2>1 DEF LoadsOfTheFront, Mounted
  <2>4. (\A m, n \in DOMAIN io : Wanted(m) /\ Wanted(n) /\ io[m].by = io[n].by => m = n)'
    BY <2>1 DEF LoadsOfTheFront
  <2>5. \A n \in DOMAIN io', k \in Screens : Wanted(n)' /\ InFront(k)' => ~hook'[k].ready
    BY <2>1 DEF LoadsOfTheFront, InFront
  <2> QED
    BY <2>2, <2>3, <2>4, <2>5 DEF LoadsOfTheFront, Wanted
<1>9. WritesComeFirst'
  BY <1>4, <1>7 DEF WritesComeFirst, Wanted, Saving, InFront
<1>10. \A n \in DOMAIN io : Awaited(n) => io[n].by # i
  BY OperationsAre DEF OneIsAwaited, Awaited, Saving
<1>11. OneIsAwaited'
  <2>1. ASSUME NEW n \in DOMAIN io', Awaited(n)'
        PROVE  \/ /\ n \in DOMAIN io /\ Awaited(n) /\ io[n].op = io'[n].op
                  /\ io[n].by = io'[n].by /\ io[n].by # i /\ io'[n].draft = io[n].draft
                  /\ attempt'[io[n].by] = attempt[io[n].by]
               \/ n = Len(io') /\ io'[n] = e
    <3>1. CASE n \in DOMAIN io /\ Awaited(n) /\ io[n].op = io'[n].op /\ io[n].by = io'[n].by
               /\ io'[n].draft = io[n].draft
      <4>1. io[n].by # i /\ io[n].by \in Screens
        BY <3>1, <1>10, OperationsAre
      <4> QED
        BY <3>1, <4>1
    <3> QED
      BY <1>3, <2>1, <3>1 DEF Awaited
  <2>2. (\A n \in DOMAIN io : io[n].op = "clear" =>
           /\ io[n].wakes /\ io[n].draft = EmptyDraft
           /\ attempt[io[n].by].stage \in {"clearing", "settling"})'
    <3> SUFFICES ASSUME NEW n \in DOMAIN io', io'[n].op = "clear"
                 PROVE  /\ io'[n].wakes /\ io'[n].draft = EmptyDraft
                        /\ attempt'[io'[n].by].stage \in {"clearing", "settling"}
      OBVIOUS
    <3>1. io'[n].wakes
      BY <1>1, <1>3 DEF OneIsAwaited
    <3>2. Awaited(n)'
      BY <3>1 DEF Awaited
    <3> QED
      BY <1>1, <2>1, <3>1, <3>2 DEF OneIsAwaited
  <2>3. (\A n \in DOMAIN io : Saving(n) /\ io[n].wakes =>
           /\ attempt[io[n].by].stage \in {"noting", "saving", "undoing"}
           /\ attempt[io[n].by].stage # "undoing" => io[n].draft = attempt[io[n].by].draft)'
    <3> SUFFICES ASSUME NEW n \in DOMAIN io', io'[n].op = "save", io'[n].wakes
                 PROVE  /\ attempt'[io'[n].by].stage \in {"noting", "saving", "undoing"}
                        /\ attempt'[io'[n].by].stage # "undoing" =>
                             io'[n].draft = attempt'[io'[n].by].draft
      BY DEF Saving
    <3>1. Awaited(n)'
      BY DEF Awaited
    <3>2. /\ n \in DOMAIN io /\ Awaited(n) /\ io[n].op = "save" /\ io[n].by = io'[n].by
          /\ io'[n].draft = io[n].draft /\ attempt'[io[n].by] = attempt[io[n].by]
      BY <1>1, <2>1, <3>1
    <3> QED
      BY <3>2 DEF OneIsAwaited, Awaited, Saving
  <2>4. (\A m, n \in DOMAIN io : Awaited(m) /\ Awaited(n) /\ io[m].by = io[n].by => m = n)'
    BY <1>1, <2>1 DEF OneIsAwaited
  <2>5. ASSUME NEW j \in Screens, attempt'[j].stage \in {"noting", "saving"}
        PROVE  \E n \in DOMAIN io' : io'[n].op = "save" /\ io'[n].wakes /\ io'[n].by = j
    <3>1. attempt[j].stage \in {"noting", "saving"}
      BY <2>5
    <3>2. PICK n \in DOMAIN io : io[n].op = "save" /\ io[n].wakes /\ io[n].by = j
      BY <3>1 DEF OneIsAwaited, Saving
    <3>3. n > 0
      BY <3>2, OperationsAre, <1>2
    <3>4. PICK m \in DOMAIN io' : m + 0 = n /\ Carries(io'[m], io[n], {})
      BY <3>3 DEF Longer
    <3> QED
      BY <3>2, <3>4 DEF Carries
  <2> QED
    BY <2>2, <2>3, <2>4, <2>5 DEF OneIsAwaited, Saving
<1> QED
  BY <1>5, <1>6, <1>8, <1>9, <1>11

LEMMA PushIs ==
  ASSUME IntakeShape, NEW s \in {0, 1}, NEW ops, Shorter(ops, io, s, {}),
         NEW hooks \in [Screens -> HookRows], NEW kind \in {"edit", "review"},
         Push(kind, ops, hooks), NEW x, x = opened + 1
  PROVE  /\ opened' = x /\ x \in Screens
         /\ stack' = Append(stack, x) /\ stack' \in Seq(Screens)
         /\ ToSet(stack') = ToSet(stack) \union {x} /\ stack' # <<>>
         /\ Last(stack') = x
         /\ Longer(io', io, s, {x}, Reading(x)) /\ io' \in Seq(Operations)
         /\ hook' \in [Screens -> HookRows]
         /\ \A j \in Screens : j # x => hook'[j] = hooks[j]
         /\ hook'[x].kind = kind /\ ~hook'[x].ready
         /\ hook'[x].draft = EmptyDraft
<1>1. opened' = x /\ x \in Screens /\ stack' = Append(stack, x)
  BY IntakeAssumption DEF Push, IntakeShape, Screens
<1>2. /\ stack' \in Seq(Screens) /\ ToSet(stack') = ToSet(stack) \union {x}
      /\ stack' # <<>> /\ Last(stack') = x
  BY <1>1, StackPushed DEF IntakeShape
<1>3. Longer(io', io, s, {x}, Reading(x)) /\ io' \in Seq(Operations)
  <2>1. io' = Load(ops, x)
    BY DEF Push, Focused
  <2>2. Longer(io', io, s, {} \union {x}, Reading(x))
    BY <1>1, <2>1, LoadIs DEF IntakeShape
  <2>3. {} \union {x} = {x}
    OBVIOUS
  <2> QED
    BY <2>2, <2>3 DEF Longer
<1>4. /\ hook' \in [Screens -> HookRows]
      /\ \A j \in Screens : j # x => hook'[j] = hooks[j]
      /\ hook'[x].kind = kind /\ ~hook'[x].ready
      /\ hook'[x].draft = EmptyDraft
  <2> DEFINE new == [NoHook EXCEPT !.kind = kind]
  <2>1. new \in HookRows /\ new.kind = kind /\ new.draft = EmptyDraft
    BY EmptyIsDraft DEF NoHook, HookRows
  <2> HIDE DEF new
  <2>2. hook' = [[hooks EXCEPT ![x] = new] EXCEPT ![x].ready = FALSE]
    BY DEF Push, Focused, new
  <2> QED
    BY <1>1, <2>1, <2>2 DEF HookRows
<1> QED
  BY <1>1, <1>2, <1>3, <1>4

LEMMA StackRises ==
  ASSUME IntakeShape, StackGrows, NEW x, x = opened + 1, stack' = Append(stack, x),
         stack' \in Seq(Screens), opened' = x
  PROVE  /\ \A a \in DOMAIN stack' : stack'[a] <= opened'
         /\ \A a, b \in DOMAIN stack' : a < b => stack'[a] < stack'[b]
<1>1. stack \in Seq(Screens) /\ opened \in Nat /\ x \in Nat
  BY DEF IntakeShape
<1>2. Len(stack') = Len(stack) + 1 /\ stack'[Len(stack) + 1] = x
      /\ \A a \in DOMAIN stack : stack'[a] = stack[a] /\ stack[a] <= opened /\ stack[a] \in Nat
  <2>1. \A a \in DOMAIN stack : stack[a] \in Screens
    BY <1>1
  <2> QED
    BY <1>1, <2>1, ScreensAre DEF StackGrows
<1>3. \A a \in DOMAIN stack' : a \in DOMAIN stack \/ a = Len(stack) + 1
  BY <1>1, <1>2
<1> QED
  BY <1>1, <1>2, <1>3 DEF StackGrows

LEMMA PushKeepsOrder ==
  ASSUME IntakeShape, IntakeShape', StackGrows, LoadsOfTheFront, WritesComeFirst,
         NEW s \in {0, 1}, NEW x \in Screens, x = opened + 1, opened' = x,
         stack' = Append(stack, x), stack' \in Seq(Screens),
         ToSet(stack') = ToSet(stack) \union {x}, stack' # <<>>, Last(stack') = x,
         Longer(io', io, s, {x}, Reading(x)), ~hook'[x].ready,
         \A j \in Screens : Busy(j)' => Busy(j) /\ ~Mounted(j)
  PROVE  StackGrows' /\ OnlyFrontWorks' /\ LoadsOfTheFront' /\ WritesComeFirst'
<1>1. /\ \A a \in DOMAIN stack' : stack'[a] <= opened'
      /\ \A a, b \in DOMAIN stack' : a < b => stack'[a] < stack'[b]
  BY StackRises
<1>2. x <= opened' /\ opened <= opened' /\ x \in {x} /\ opened \in Nat
  BY ScreensAre DEF IntakeShape
<1>3. (\A k : InFront(k)' => k = x) /\ Mounted(x)' /\ InFront(x)'
  BY DEF InFront, Mounted
<1>4. \A j \in Screens : Busy(j)' => j <= opened' /\ j # x
  BY <1>2, ScreensAre DEF StackGrows
<1>5. \A j \in Screens : Busy(j)' /\ Mounted(j)' => j = x
  BY DEF Mounted
<1>6. \A n \in DOMAIN io : n > s /\ Wanted(n) => io[n].by \in ToSet(stack') \/ io[n].by \in {x}
  BY DEF LoadsOfTheFront, Mounted
<1> QED
  BY <1>1, <1>2, <1>3, <1>4, <1>5, <1>6, FocusKeepsOrder

LEMMA OpenOrders ==
  ASSUME IntakeShape, IntakeOrder, Open
  PROVE  IntakeShape' /\ IntakeOrder'
<1> USE DEF IntakeOrder
<1>1. /\ stack = <<>> /\ Push("edit", io, hook)
      /\ UNCHANGED <<stored, attempt, wire, requests, drafts>>
  BY DEF Open
<1>2. /\ Shorter(io, io, 0, {}) /\ hook \in [Screens -> HookRows] /\ io \in Seq(Operations)
      /\ "edit" \in {"edit", "review"} /\ 0 \in {0, 1}
  BY SameIs DEF IntakeShape
<1>3. PICK x : x = opened + 1
  OBVIOUS
<1>4. /\ opened' = x /\ x \in Screens
      /\ stack' = Append(stack, x) /\ stack' \in Seq(Screens)
      /\ ToSet(stack') = ToSet(stack) \union {x} /\ stack' # <<>> /\ Last(stack') = x
      /\ Longer(io', io, 0, {x}, Reading(x)) /\ io' \in Seq(Operations)
      /\ hook' \in [Screens -> HookRows] /\ ~hook'[x].ready
  BY <1>1, <1>2, <1>3, PushIs
<1>5. IntakeShape'
  BY <1>1, <1>4, ScreensAre DEF IntakeShape
<1>6. \A j \in Screens : Busy(j)' => Busy(j) /\ ~Mounted(j)
  BY <1>1 DEF Busy, Mounted, ToSet
<1>7. StackGrows' /\ OnlyFrontWorks' /\ LoadsOfTheFront' /\ WritesComeFirst'
  BY <1>2, <1>3, <1>4, <1>5, <1>6, PushKeepsOrder
<1>8. OneIsAwaited'
  <2>1. NothingBegun(0)
    BY <1>2, <1>4, LoadBegins
  <2>2. \A n \in DOMAIN io : ~(n <= 0)
    BY <1>2
  <2> QED
    BY <1>1, <1>2, <1>4, <2>1, <2>2, AwaitedKeeps
<1>9. HeardPosts'
  BY <1>1 DEF HeardPosts
<1> QED
  BY <1>5, <1>7, <1>8, <1>9

LEMMA RefocusOrders ==
  ASSUME IntakeShape, IntakeOrder, NEW i \in Screens, Refocus(i)
  PROVE  IntakeShape' /\ IntakeOrder'
<1> USE DEF IntakeOrder
<1>1. /\ InFront(i) /\ io' = Load(io, i) /\ hook' = [hook EXCEPT ![i].ready = FALSE]
      /\ \A n \in DOMAIN io : ~Wanted(n)
      /\ UNCHANGED <<stored, stack, opened, attempt, wire, requests, drafts>>
  BY DEF Refocus, Focused, Wanted
<1>2. Longer(io', io, 0, {} \union {i}, Reading(i)) /\ io' \in Seq(Operations)
  <2>1. io \in Seq(Operations)
    BY DEF IntakeShape
  <2>2. Shorter(io, io, 0, {})
    BY <2>1, SameIs
  <2>3. Longer(Load(io, i), io, 0, {} \union {i}, Reading(i))
    BY <2>1, <2>2, LoadIs
  <2> QED
    BY <1>1, <2>3 DEF Longer
<1>3. hook' \in [Screens -> HookRows] /\ ~hook'[i].ready
  BY <1>1 DEF IntakeShape, HookRows
<1>4. IntakeShape'
  BY <1>1, <1>2, <1>3 DEF IntakeShape
<1>5. StackGrows' /\ OnlyFrontWorks' /\ LoadsOfTheFront' /\ WritesComeFirst'
  <2>1. i <= opened' /\ opened <= opened' /\ i \in {} \union {i}
    BY <1>1, Fronts, MountedIsOpen, ScreensAre
  <2>2. (\A k : InFront(k)' => k = i) /\ Mounted(i)' /\ InFront(i)'
    BY <1>1, Fronts DEF InFront, Mounted
  <2>3. \A j \in Screens : Busy(j)' /\ Mounted(j)' => j = i
    BY <1>1, Fronts DEF OnlyFrontWorks, Busy, Mounted
  <2>4. Busy(i)' => \A n \in DOMAIN io : n > 0 /\ (Wanted(n) \/ Saving(n)) => io[n].by = i
    BY <1>1 DEF WritesComeFirst, Busy
  <2>5. \A j \in Screens : Busy(j)' => j <= opened'
    BY <1>1, ScreensAre DEF StackGrows, Busy
  <2>6. /\ \A a \in DOMAIN stack' : stack'[a] <= opened'
        /\ \A a, b \in DOMAIN stack' : a < b => stack'[a] < stack'[b]
    BY <1>1 DEF StackGrows
  <2> QED
    BY <1>1, <1>2, <1>3, <1>4, <2>1, <2>2, <2>3, <2>4, <2>5, <2>6, FocusKeepsOrder
<1>6. OneIsAwaited'
  <2>1. NothingBegun(0)
    BY <1>2, LoadBegins
  <2>2. \A n \in DOMAIN io : ~(n <= 0)
    BY DEF IntakeShape
  <2> QED
    BY <1>1, <1>2, <2>1, <2>2, AwaitedKeeps
<1>7. HeardPosts'
  BY <1>1 DEF HeardPosts
<1> QED
  BY <1>4, <1>5, <1>6, <1>7

\* What Back does to the stack.
LEMMA BackIs ==
  ASSUME IntakeShape, StackGrows, stack # <<>>, stack' = Front(stack)
  PROVE  /\ stack' \in Seq(Screens) /\ Last(stack) \in Screens
         /\ \A a \in DOMAIN stack' : stack'[a] <= opened
         /\ \A a, b \in DOMAIN stack' : a < b => stack'[a] < stack'[b]
         /\ ToSet(stack) = ToSet(stack') \union {Last(stack)} /\ Last(stack) \notin ToSet(stack')
         /\ Len(stack) = 1 => stack' = <<>>
         /\ Len(stack) # 1 => /\ stack' # <<>> /\ Last(stack') = stack[Len(stack) - 1]
                              /\ Last(stack') \in Screens /\ Last(stack') \in ToSet(stack')
<1>1. /\ stack' \in Seq(Screens) /\ Len(stack') = Len(stack) - 1
      /\ \A a \in 1 .. Len(stack) - 1 : stack'[a] = stack[a]
      /\ ToSet(stack) = ToSet(stack') \union {Last(stack)} /\ Last(stack) \in Screens
  BY StackPopped DEF IntakeShape
<1>2. stack \in Seq(Screens) /\ Len(stack) \in Nat /\ Len(stack) >= 1
  BY DEF IntakeShape
<1>3. \A a \in DOMAIN stack' : a \in DOMAIN stack /\ a < Len(stack) /\ stack'[a] = stack[a]
  BY <1>1, <1>2
<1>4. Last(stack) \notin ToSet(stack')
  <2> SUFFICES ASSUME NEW a \in DOMAIN stack', stack'[a] = stack[Len(stack)]
               PROVE  FALSE
    BY DEF ToSet, Last
  <2>1. stack[a] < stack[Len(stack)] /\ stack[a] \in Screens
    BY <1>2, <1>3 DEF StackGrows
  <2> QED
    BY <1>3, <2>1, ScreensAre
<1>5. Len(stack) = 1 => stack' = <<>>
  BY <1>1
<1>6. Len(stack) # 1 => /\ stack' # <<>> /\ Last(stack') = stack[Len(stack) - 1]
                       /\ Last(stack') \in Screens /\ Last(stack') \in ToSet(stack')
  <2> SUFFICES ASSUME Len(stack) # 1
               PROVE  /\ stack' # <<>> /\ Last(stack') = stack[Len(stack) - 1]
                      /\ Last(stack') \in Screens /\ Last(stack') \in ToSet(stack')
    OBVIOUS
  <2>1. Len(stack') \in DOMAIN stack' /\ Len(stack') = Len(stack) - 1
    BY <1>1, <1>2
  <2>2. stack'[Len(stack')] = stack[Len(stack) - 1] /\ stack'[Len(stack')] \in Screens
    BY <1>1, <1>2, <2>1
  <2> QED
    BY <2>1, <2>2, <1>1 DEF Last, ToSet
<1> QED
  BY <1>1, <1>3, <1>4, <1>5, <1>6 DEF StackGrows

LEMMA BackOrders ==
  ASSUME IntakeShape, IntakeOrder, Back
  PROVE  IntakeShape' /\ IntakeOrder'
<1> USE DEF IntakeOrder
<1> DEFINE gone == Last(stack)
           ops == Overtaken(io, {gone})
           hooks == [hook EXCEPT ![gone] = [NoHook EXCEPT !.kind = hook[gone].kind]]
<1>0. PICK i : i = stack[Len(stack) - 1]
  OBVIOUS
<1>1. /\ stack # <<>> /\ stack' = Front(stack)
      /\ UNCHANGED <<stored, opened, attempt, wire, requests, drafts>>
  BY DEF Back
<1>2. IF Len(stack) = 1 THEN io' = ops /\ hook' = hooks ELSE Focused(ops, hooks, i)
  BY <1>0 DEF Back
<1>3. /\ stack' \in Seq(Screens) /\ gone \in Screens
      /\ \A a \in DOMAIN stack' : stack'[a] <= opened
      /\ \A a, b \in DOMAIN stack' : a < b => stack'[a] < stack'[b]
      /\ ToSet(stack) = ToSet(stack') \union {gone} /\ gone \notin ToSet(stack')
      /\ Len(stack) = 1 => stack' = <<>>
      /\ Len(stack) # 1 => /\ stack' # <<>> /\ Last(stack') = i
                           /\ i \in Screens /\ i \in ToSet(stack')
  BY <1>0, <1>1, BackIs
<1>4. hooks \in [Screens -> HookRows]
  <2> DEFINE row == [NoHook EXCEPT !.kind = hook[gone].kind]
  <2>1. hook[gone] \in HookRows
    BY <1>3 DEF IntakeShape
  <2>2. row \in HookRows
    BY <2>1, EmptyIsDraft DEF HookRows, NoHook
  <2> HIDE DEF row
  <2>3. hooks = [hook EXCEPT ![gone] = row]
    BY DEF row
  <2> QED
    BY <1>3, <2>2, <2>3 DEF IntakeShape
<1> HIDE DEF hooks
<1>5. io \in Seq(Operations) /\ Shorter(ops, io, 0, {gone})
  BY OvertakenIs DEF IntakeShape
<1> HIDE DEF ops
<1>6. NothingBegun(0) /\ IntakeShape'
      /\ StackGrows' /\ OnlyFrontWorks' /\ LoadsOfTheFront' /\ WritesComeFirst'
  <2>1. CASE Len(stack) = 1
    <3>1. io' \in Seq(Operations) /\ Shorter(io', io, 0, {gone}) /\ hook' \in [Screens -> HookRows]
      BY <1>2, <1>4, <1>5, <2>1 DEF Shorter
    <3>2. IntakeShape'
      BY <1>1, <1>3, <3>1 DEF IntakeShape
    <3>3. ToSet(stack') = {}
      BY <1>3, <2>1 DEF ToSet
    <3>4. \A n \in DOMAIN io : Wanted(n) => io[n].by \in {gone}
      BY <1>3, <3>3 DEF LoadsOfTheFront, Mounted
    <3>5. stack' = <<>> /\ UNCHANGED opened /\ \A k \in Screens : Busy(k)' => Busy(k)
      BY <1>1, <1>3, <2>1 DEF Busy
    <3>6. StackGrows' /\ OnlyFrontWorks' /\ LoadsOfTheFront' /\ WritesComeFirst'
      BY <3>1, <3>2, <3>4, <3>5, ClosedKeepsOrder
    <3> QED
      BY <3>1, <3>2, <3>6, ShorterBegins
  <2>2. CASE Len(stack) # 1
    <3>1. /\ stack' # <<>> /\ Last(stack') = i /\ i \in Screens /\ i \in ToSet(stack')
          /\ io' = Load(ops, i) /\ hook' = [hooks EXCEPT ![i].ready = FALSE]
      BY <1>2, <1>3, <2>2 DEF Focused
    <3>2. hook' \in [Screens -> HookRows] /\ ~hook'[i].ready
      BY <1>4, <3>1 DEF HookRows
    <3>3. Longer(io', io, 0, {gone} \union {i}, Reading(i)) /\ io' \in Seq(Operations)
      <4>1. Longer(Load(ops, i), io, 0, {gone} \union {i}, Reading(i))
        BY <1>5, <3>1, LoadIs
      <4> QED
        BY <3>1, <4>1 DEF Longer
    <3>4. IntakeShape'
      BY <1>1, <1>3, <3>2, <3>3 DEF IntakeShape
    <3>5. i <= opened' /\ opened <= opened' /\ i \in {gone} \union {i}
      BY <1>1, <1>3, <3>1, MountedIsOpen, ScreensAre DEF Mounted
    <3>6. (\A k : InFront(k)' => k = i) /\ Mounted(i)' /\ InFront(i)'
      BY <3>1 DEF InFront, Mounted
    <3>7. \A j \in Screens : Mounted(j)' => ~Busy(j)'
      BY <1>1, <1>3 DEF OnlyFrontWorks, Mounted, InFront, Busy
    <3>8. \A n \in DOMAIN io : n > 0 /\ Wanted(n) =>
            io[n].by \in ToSet(stack') \/ io[n].by \in {gone} \union {i}
      BY <1>3 DEF LoadsOfTheFront, Mounted
    <3>9. \A j \in Screens : Busy(j)' => j <= opened'
      BY <1>1, ScreensAre DEF StackGrows, Busy
    <3>10. StackGrows' /\ OnlyFrontWorks' /\ LoadsOfTheFront' /\ WritesComeFirst'
      BY <1>1, <1>3, <3>1, <3>2, <3>3, <3>4, <3>5, <3>6, <3>7, <3>8, <3>9, FocusKeepsOrder
    <3> QED
      BY <3>3, <3>4, <3>10, LoadBegins
  <2> QED
    BY <2>1, <2>2
<1>7. OneIsAwaited'
  <2>1. io' \in Seq(Operations) /\ \A n \in DOMAIN io : ~(n <= 0)
    BY <1>6 DEF IntakeShape
  <2> QED
    BY <1>1, <1>6, <2>1, AwaitedKeeps
<1>8. HeardPosts'
  BY <1>1 DEF HeardPosts
<1> QED
  BY <1>6, <1>7, <1>8

AttemptRows == [stage: Stages, draft: IntakeDrafts]

\* The screen in front writes d.
Writes(i, d, w) ==
  /\ InFront(i) /\ d \in IntakeDrafts /\ w \in BOOLEAN
  /\ Longer(io', io, 0, {i}, Writing(i, d, w))
  /\ UNCHANGED <<stored, stack, opened, wire, requests, astray>>
  /\ hook' \in [Screens -> HookRows] /\ attempt' \in [Screens -> AttemptRows] /\ drafts' \in Nat
  /\ \A j \in Screens : j # i => hook'[j] = hook[j] /\ attempt'[j] = attempt[j]
  /\ hook'[i].draft = d /\ hook'[i].kind = hook[i].kind /\ hook'[i].ready = hook[i].ready
  /\ hook'[i].error = hook[i].error

LEMMA WritesOrders ==
  ASSUME IntakeShape, QueueOrder, HeardPosts, NEW i \in Screens, NEW d, NEW w, Writes(i, d, w),
         hook[i].ready \/ Busy(i), w => attempt[i].stage # "posting",
         IF w THEN /\ attempt[i].stage \notin {"noting", "saving", "undoing", "clearing", "settling"}
                   /\ attempt'[i].stage \in {"noting", "saving", "undoing"}
                   /\ attempt'[i].stage # "undoing" => attempt'[i].draft = d
         ELSE attempt'[i] = attempt[i]
  PROVE  IntakeShape' /\ QueueOrder' /\ HeardPosts'
<1>1. IntakeShape'
  BY DEF IntakeShape, Writes, Longer, AttemptRows
<1>2. QueueOrder'
  <2>1. d \in IntakeDrafts /\ w \in BOOLEAN /\ InFront(i)
    BY DEF Writes
  <2>2. \A j \in Screens : hook'[j].ready = hook[j].ready
    BY DEF Writes
  <2>3. \A j \in Screens : j # i => attempt'[j] = attempt[j]
    BY DEF Writes
  <2>4. Longer(io', io, 0, {i}, Writing(i, d, w)) /\ UNCHANGED <<stack, opened>>
    BY DEF Writes
  <2> QED
    BY <2>1, <2>2, <2>3, <2>4, WriteKeepsOrder
<1>3. HeardPosts'
  <2>1. ASSUME NEW post \in wire, post.heard
        PROVE  attempt'[post.by] = attempt[post.by]
    <3>1. post.by \in Screens /\ attempt[post.by].stage = "posting"
      BY <2>1 DEF HeardPosts, IntakeShape
    <3>2. post.by = i => attempt'[i] = attempt[i]
      BY <3>1
    <3> QED
      BY <3>1, <3>2 DEF Writes
  <2>2. wire' = wire
    BY DEF Writes
  <2> QED
    BY <2>1, <2>2 DEF HeardPosts
<1> QED
  BY <1>1, <1>2, <1>3

Entered(i, text) ==
  [hook[i].draft EXCEPT !.text = text,
                        !.id = IF hook[i].draft.id = 0 THEN drafts + 1 ELSE @]

LEMMA ChangeIs ==
  ASSUME IntakeShape, NEW i \in Screens, NEW text \in Texts, Change(i, text)
  PROVE  LET d == Entered(i, text) IN
         /\ Writes(i, d, FALSE)
         /\ hook[i].kind = "edit" /\ hook[i].ready /\ ~Locked(hook[i].draft) /\ attempt' = attempt
         /\ d.text = text /\ d.submission = hook[i].draft.submission
         /\ hook[i].draft.id = 0 => d.id = drafts + 1 /\ drafts' = drafts + 1
         /\ hook[i].draft.id # 0 => d.id = hook[i].draft.id /\ drafts' = drafts
<1> DEFINE d == Entered(i, text)
<1>1. /\ InFront(i) /\ hook[i].kind = "edit" /\ hook[i].ready /\ ~Locked(hook[i].draft)
      /\ drafts' = IF hook[i].draft.id = 0 THEN drafts + 1 ELSE drafts
      /\ io' = Save(io, i, d, FALSE) /\ hook' = [hook EXCEPT ![i].draft = d]
      /\ UNCHANGED <<stored, stack, opened, attempt, wire, requests, astray>>
  BY DEF Change, Entered
<1>2. hook[i] \in HookRows /\ hook[i].draft \in IntakeDrafts /\ drafts \in Nat /\ io \in Seq(Operations)
  BY DEF IntakeShape, HookRows
<1>3. PICK x \in Nat : x = IF hook[i].draft.id = 0 THEN drafts + 1 ELSE hook[i].draft.id
  BY <1>2 DEF IntakeDrafts
<1>4. d = [hook[i].draft EXCEPT !.text = text, !.id = x]
  BY <1>3 DEF Entered
<1>5. text \in IntakeTexts
  BY DEF IntakeTexts
<1>6. /\ d \in IntakeDrafts /\ d.text = text /\ d.submission = hook[i].draft.submission
      /\ d.id = x
  BY <1>2, <1>3, <1>4, <1>5 DEF IntakeDrafts
<1> HIDE DEF d
<1>7. Longer(io', io, 0, {i}, Writing(i, d, FALSE))
  BY <1>1, <1>2, <1>6, SaveIs
<1>8. /\ hook' \in [Screens -> HookRows] /\ \A j \in Screens : j # i => hook'[j] = hook[j]
      /\ hook'[i].draft = d /\ hook'[i].kind = hook[i].kind /\ hook'[i].ready = hook[i].ready
      /\ hook'[i].error = hook[i].error
  BY <1>1, <1>2, <1>6 DEF IntakeShape, HookRows
<1>9. drafts' \in Nat
  BY <1>1, <1>2
<1>10. Writes(i, d, FALSE)
  BY <1>1, <1>6, <1>7, <1>8, <1>9 DEF Writes, IntakeShape, AttemptRows
<1> QED
  BY <1>1, <1>2, <1>3, <1>6, <1>10 DEF d

LEMMA RetrySaveIs ==
  ASSUME IntakeShape, NEW i \in Screens, RetrySave(i)
  PROVE  /\ Writes(i, hook[i].draft, FALSE)
         /\ hook[i].ready /\ hook[i].error /\ UNCHANGED <<attempt, hook, drafts>>
<1>1. /\ InFront(i) /\ hook[i].ready /\ hook[i].error
      /\ io' = Save(io, i, hook[i].draft, FALSE)
      /\ UNCHANGED <<stored, stack, opened, hook, attempt, wire, requests, astray, drafts>>
  BY DEF RetrySave
<1>2. hook[i] \in HookRows /\ hook[i].draft \in IntakeDrafts /\ io \in Seq(Operations)
  BY DEF IntakeShape, HookRows
<1>3. Longer(io', io, 0, {i}, Writing(i, hook[i].draft, FALSE))
  BY <1>1, <1>2, SaveIs
<1> QED
  BY <1>1, <1>2, <1>3 DEF Writes, IntakeShape, AttemptRows

LEMMA PressIs ==
  ASSUME IntakeShape, NEW i \in Screens, Press(i), ~Locked(hook[i].draft)
  PROVE  /\ Writes(i, hook[i].draft, TRUE)
         /\ hook[i].ready /\ ~hook[i].error /\ UNCHANGED <<hook, drafts>>
         /\ Complete(hook[i].draft) /\ attempt[i].stage = "idle"
         /\ attempt'[i].stage = "noting" /\ attempt'[i].draft = hook[i].draft
<1>1. /\ InFront(i) /\ hook[i].ready /\ ~hook[i].error /\ Complete(hook[i].draft)
      /\ attempt[i].stage = "idle"
      /\ attempt' = [attempt EXCEPT ![i] = [stage |-> "noting", draft |-> hook[i].draft]]
      /\ io' = Save(io, i, hook[i].draft, TRUE)
      /\ UNCHANGED <<stored, stack, opened, hook, wire, requests, astray, drafts>>
  BY DEF Press
<1>2. hook[i] \in HookRows /\ hook[i].draft \in IntakeDrafts /\ io \in Seq(Operations)
  BY DEF IntakeShape, HookRows
<1>3. Longer(io', io, 0, {i}, Writing(i, hook[i].draft, TRUE))
  BY <1>1, <1>2, SaveIs
<1>4. /\ attempt' \in [Screens -> AttemptRows] /\ attempt'[i].stage = "noting"
      /\ attempt'[i].draft = hook[i].draft
      /\ \A j \in Screens : j # i => attempt'[j] = attempt[j]
  BY <1>1, <1>2 DEF IntakeShape, AttemptRows, Stages
<1> QED
  BY <1>1, <1>2, <1>3, <1>4 DEF Writes, IntakeShape

LEMMA PressChecks ==
  ASSUME IntakeShape, NEW i \in Screens, Press(i), Locked(hook[i].draft)
  PROVE  /\ InFront(i) /\ hook[i].ready /\ ~hook[i].error /\ attempt[i].stage = "idle"
         /\ attempt' \in [Screens -> AttemptRows] /\ attempt'[i].stage = "checking"
         /\ attempt'[i].draft = hook[i].draft
         /\ \A j \in Screens : j # i => attempt'[j] = attempt[j]
         /\ UNCHANGED <<stored, io, stack, opened, hook, wire, requests, astray, drafts>>
<1>1. /\ InFront(i) /\ hook[i].ready /\ ~hook[i].error /\ attempt[i].stage = "idle"
      /\ attempt' = [attempt EXCEPT ![i] = [stage |-> "checking", draft |-> hook[i].draft]]
      /\ UNCHANGED <<stored, io, stack, opened, hook, wire, requests, astray, drafts>>
  BY DEF Press
<1>2. hook[i].draft \in IntakeDrafts
  BY DEF IntakeShape, HookRows
<1> QED
  BY <1>1, <1>2 DEF IntakeShape, AttemptRows, Stages

Submitting(i) ==
  [attempt[i].draft EXCEPT
     !.submission = [text |-> attempt[i].draft.text, existing |-> DOMAIN requests]]

LEMMA SubmittingIs ==
  ASSUME IntakeShape, NEW i \in Screens
  PROVE  /\ Submitting(i) \in IntakeDrafts /\ Submitting(i).id = attempt[i].draft.id
         /\ Submitting(i).text = attempt[i].draft.text
         /\ Submitting(i).submission = [text |-> attempt[i].draft.text, existing |-> DOMAIN requests]
<1>1. attempt[i].draft \in IntakeDrafts
  BY DEF IntakeShape
<1>2. DOMAIN requests \in SUBSET Nat
  BY DEF IntakeShape
<1>3. [text |-> attempt[i].draft.text, existing |-> DOMAIN requests]
        \in [text: IntakeTexts, existing: SUBSET Nat]
  BY <1>1, <1>2 DEF IntakeDrafts
<1> QED
  BY <1>1, <1>3 DEF Submitting, IntakeDrafts

LEMMA ListingWrites ==
  ASSUME IntakeShape, OnlyFrontWorks, NEW i \in Screens, ListExisting(i), Mounted(i)
  PROVE  /\ Writes(i, Submitting(i), TRUE)
         /\ attempt[i].stage = "noted" /\ attempt'[i].stage = "saving"
         /\ attempt'[i].draft = Submitting(i) /\ UNCHANGED drafts
<1> DEFINE d == Submitting(i)
<1>1. /\ attempt[i].stage = "noted" /\ Submit(i, d)
      /\ UNCHANGED <<stored, stack, opened, requests, drafts>>
  BY DEF ListExisting, Submitting
<1>2. d \in IntakeDrafts /\ io \in Seq(Operations)
  BY SubmittingIs DEF IntakeShape
<1>3. InFront(i)
  BY <1>1 DEF OnlyFrontWorks, Busy
<1> HIDE DEF d
<1>4. /\ io' = Save(io, i, d, TRUE) /\ hook' = [hook EXCEPT ![i].draft = d]
      /\ attempt' = [attempt EXCEPT ![i] = [stage |-> "saving", draft |-> d]]
      /\ UNCHANGED <<wire, astray>>
  BY <1>1 DEF Submit
<1>5. Longer(io', io, 0, {i}, Writing(i, d, TRUE))
  BY <1>2, <1>4, SaveIs
<1>6. /\ hook' \in [Screens -> HookRows] /\ \A j \in Screens : j # i => hook'[j] = hook[j]
      /\ hook'[i].draft = d /\ hook'[i].kind = hook[i].kind /\ hook'[i].ready = hook[i].ready
      /\ hook'[i].error = hook[i].error
  BY <1>2, <1>4 DEF IntakeShape, HookRows
<1>7. /\ attempt' \in [Screens -> AttemptRows] /\ attempt'[i].stage = "saving"
      /\ attempt'[i].draft = d /\ \A j \in Screens : j # i => attempt'[j] = attempt[j]
  BY <1>2, <1>4 DEF IntakeShape, AttemptRows, Stages
<1>8. Writes(i, d, TRUE)
  BY <1>1, <1>2, <1>3, <1>4, <1>5, <1>6, <1>7 DEF Writes, IntakeShape
<1> QED
  BY <1>1, <1>7, <1>8 DEF d

LEMMA ListingPosts ==
  ASSUME IntakeShape, NEW i \in Screens, ListExisting(i), ~Mounted(i)
  PROVE  /\ wire' = wire \union {Post(i, Submitting(i))}
         /\ astray' = astray \union {Submitting(i).id}
         /\ attempt[i].stage = "noted" /\ attempt'[i].stage = "posting"
         /\ attempt'[i].draft = Submitting(i) /\ attempt' \in [Screens -> AttemptRows]
         /\ \A j \in Screens : j # i => attempt'[j] = attempt[j]
         /\ UNCHANGED <<stored, io, stack, opened, hook, requests, drafts>>
<1> DEFINE d == Submitting(i)
<1>1. /\ attempt[i].stage = "noted" /\ Submit(i, d)
      /\ UNCHANGED <<stored, stack, opened, requests, drafts>>
  BY DEF ListExisting, Submitting
<1>2. d \in IntakeDrafts
  BY SubmittingIs
<1> HIDE DEF d
<1>4. /\ wire' = wire \union {Post(i, d)} /\ astray' = astray \union {d.id}
      /\ attempt' = [attempt EXCEPT ![i] = [stage |-> "posting", draft |-> d]]
      /\ UNCHANGED <<io, hook>>
  BY <1>1 DEF Submit
<1>7. /\ attempt' \in [Screens -> AttemptRows] /\ attempt'[i].stage = "posting"
      /\ attempt'[i].draft = d /\ \A j \in Screens : j # i => attempt'[j] = attempt[j]
  BY <1>2, <1>4 DEF IntakeShape, AttemptRows, Stages
<1> QED
  BY <1>1, <1>4, <1>7 DEF d

Undoing(i) == [hook[i].draft EXCEPT !.submission = NoSubmission]

LEMMA UndoingIs ==
  ASSUME IntakeShape, NEW i \in Screens
  PROVE  /\ Undoing(i) \in IntakeDrafts /\ Undoing(i).id = hook[i].draft.id
         /\ ~Locked(Undoing(i)) /\ Undoing(i).text = hook[i].draft.text
<1>1. hook[i].draft \in IntakeDrafts
  BY DEF IntakeShape, HookRows
<1>2. NoSubmission \in [text: IntakeTexts, existing: SUBSET Nat]
  BY DEF NoSubmission, IntakeTexts
<1> QED
  BY <1>1, <1>2 DEF Undoing, IntakeDrafts, Locked

LEMMA RejectWrites ==
  ASSUME IntakeShape, OnlyFrontWorks, NEW i \in Screens, Reject(i), Mounted(i)
  PROVE  /\ Writes(i, Undoing(i), TRUE)
         /\ attempt[i].stage = "refused" /\ attempt'[i].stage = "undoing"
         /\ attempt'[i].draft = attempt[i].draft /\ UNCHANGED drafts
<1> DEFINE d == Undoing(i)
<1>1. /\ attempt[i].stage = "refused"
      /\ io' = Save(io, i, d, TRUE) /\ hook' = [hook EXCEPT ![i].draft = d]
      /\ attempt' = [attempt EXCEPT ![i].stage = "undoing"]
      /\ UNCHANGED <<stored, stack, opened, wire, requests, astray, drafts>>
  BY DEF Reject, Update, At, Undoing
<1>2. d \in IntakeDrafts /\ io \in Seq(Operations)
  BY UndoingIs DEF IntakeShape
<1>3. InFront(i)
  BY <1>1 DEF OnlyFrontWorks, Busy
<1> HIDE DEF d
<1>5. Longer(io', io, 0, {i}, Writing(i, d, TRUE))
  BY <1>1, <1>2, SaveIs
<1>6. /\ hook' \in [Screens -> HookRows] /\ \A j \in Screens : j # i => hook'[j] = hook[j]
      /\ hook'[i].draft = d /\ hook'[i].kind = hook[i].kind /\ hook'[i].ready = hook[i].ready
      /\ hook'[i].error = hook[i].error
  BY <1>1, <1>2 DEF IntakeShape, HookRows
<1>7. /\ attempt' \in [Screens -> AttemptRows] /\ attempt'[i].stage = "undoing"
      /\ attempt'[i].draft = attempt[i].draft /\ \A j \in Screens : j # i => attempt'[j] = attempt[j]
  BY <1>1 DEF IntakeShape, AttemptRows, Stages
<1>8. Writes(i, d, TRUE)
  BY <1>1, <1>2, <1>3, <1>5, <1>6, <1>7 DEF Writes, IntakeShape
<1> QED
  BY <1>1, <1>7, <1>8 DEF d

LEMMA AtIs ==
  ASSUME IntakeShape, NEW i \in Screens, NEW stage \in Stages, attempt' = At(i, stage)
  PROVE  /\ attempt' \in [Screens -> AttemptRows] /\ attempt'[i].stage = stage
         /\ attempt'[i].draft = attempt[i].draft
         /\ \A j \in Screens : j # i => attempt'[j] = attempt[j]
  BY DEF At, IntakeShape, AttemptRows

NoneAwaits == {"idle", "noted", "posting", "created", "refused", "checking"}

LEMMA NobodyWaits ==
  ASSUME IntakeShape, OneIsAwaited, NEW i \in Screens, attempt[i].stage \in NoneAwaits,
         NEW n \in DOMAIN io, Awaited(n)
  PROVE  io[n].by # i
  BY OperationsAre DEF OneIsAwaited, Awaited, Saving, NoneAwaits

\* Only the button of a screen gets on.
LEMMA StageKeepsOrder ==
  ASSUME IntakeShape, IntakeShape', QueueOrder, NEW i \in Screens,
         UNCHANGED <<io, stack, opened, hook>>,
         attempt[i].stage \in NoneAwaits, attempt'[i].stage \notin {"noting", "saving"},
         Busy(i) \/ (InFront(i) /\ hook[i].ready),
         \A j \in Screens : j # i => attempt'[j] = attempt[j]
  PROVE  QueueOrder'
<1> USE DEF QueueOrder
<1>1. OneIsAwaited'
  <2>1. io \in Seq(Operations) /\ io' \in Seq(Operations) /\ Shorter(io', io, 0, {})
    BY SameIs DEF IntakeShape
  <2>2. NothingBegun(0)
    BY <2>1, ShorterBegins
  <2>3. \A n \in DOMAIN io : ~(n <= 0) /\ (Awaited(n) => io[n].by # i)
    BY NobodyWaits, OperationsAre, <2>1
  <2> QED
    BY <2>1, <2>2, <2>3, AwaitedKeeps
<1>2. StackGrows'
  <2>1. i <= opened
    BY Fronts, MountedIsOpen, ScreensAre DEF StackGrows
  <2> QED
    BY <2>1, ScreensAre DEF StackGrows, Busy
<1>3. OnlyFrontWorks'
  BY DEF OnlyFrontWorks, Mounted, InFront, Busy
<1>4. LoadsOfTheFront'
  BY Fronts DEF LoadsOfTheFront, Wanted, Mounted, InFront, Busy
<1>5. WritesComeFirst'
  BY Fronts DEF WritesComeFirst, Wanted, Saving, InFront, Busy
<1> QED
  BY <1>1, <1>2, <1>3, <1>4, <1>5

LEMMA FailListingOrders ==
  ASSUME IntakeShape, IntakeOrder, NEW i \in Screens, FailListing(i)
  PROVE  IntakeShape' /\ IntakeOrder'
<1> USE DEF IntakeOrder
<1>1. /\ attempt[i].stage = "noted" /\ attempt' = At(i, "idle")
      /\ UNCHANGED <<stored, io, stack, opened, hook, wire, requests, drafts>>
  BY DEF FailListing
<1>2. /\ attempt' \in [Screens -> AttemptRows] /\ attempt'[i].stage = "idle"
      /\ \A j \in Screens : j # i => attempt'[j] = attempt[j]
  BY <1>1, AtIs DEF Stages
<1>3. IntakeShape'
  BY <1>1, <1>2 DEF IntakeShape, AttemptRows
<1>4. QueueOrder'
  <2>1. attempt[i].stage \in NoneAwaits /\ QueueOrder
    BY <1>1 DEF NoneAwaits, Busy, QueueOrder
  <2>2. attempt'[i].stage \notin {"noting", "saving"}
    BY <1>2
  <2>5. Busy(i) \/ (InFront(i) /\ hook[i].ready)
    BY <1>1 DEF Busy
  <2>3. UNCHANGED <<io, stack, opened, hook>>
    BY <1>1
  <2>4. \A j \in Screens : j # i => attempt'[j] = attempt[j]
    BY <1>2
  <2> QED
    BY <1>3, <2>1, <2>2, <2>3, <2>4, <2>5, StageKeepsOrder
<1>5. HeardPosts'
  BY <1>1, <1>2 DEF HeardPosts, IntakeShape
<1> QED
  BY <1>3, <1>4, <1>5 DEF QueueOrder

LEMMA FailCheckOrders ==
  ASSUME IntakeShape, IntakeOrder, NEW i \in Screens,
         attempt[i].stage \in {"checking", "refused"}, attempt' = At(i, "idle"),
         UNCHANGED <<stored, io, stack, opened, hook, wire, requests, drafts>>
  PROVE  IntakeShape' /\ IntakeOrder'
<1> USE DEF IntakeOrder
<1>2. /\ attempt' \in [Screens -> AttemptRows] /\ attempt'[i].stage = "idle"
      /\ \A j \in Screens : j # i => attempt'[j] = attempt[j]
  BY AtIs DEF Stages
<1>3. IntakeShape'
  BY <1>2 DEF IntakeShape, AttemptRows
<1>4. QueueOrder'
  <2>1. attempt[i].stage \in NoneAwaits /\ QueueOrder
    BY DEF NoneAwaits, Busy, QueueOrder
  <2>2. attempt'[i].stage \notin {"noting", "saving"}
    BY <1>2
  <2>5. Busy(i) \/ (InFront(i) /\ hook[i].ready)
    BY DEF Busy
  <2>3. UNCHANGED <<io, stack, opened, hook>>
    OBVIOUS
  <2>4. \A j \in Screens : j # i => attempt'[j] = attempt[j]
    BY <1>2
  <2> QED
    BY <1>3, <2>1, <2>2, <2>3, <2>4, <2>5, StageKeepsOrder
<1>5. HeardPosts'
  BY <1>2 DEF HeardPosts, IntakeShape
<1> QED
  BY <1>3, <1>4, <1>5 DEF QueueOrder

LEMMA ClearingOrders ==
  ASSUME IntakeShape, IntakeOrder, NEW i \in Screens,
         attempt[i].stage \in {"checking", "created"}, NEW stage \in {"clearing", "settling"},
         Clearing(i, stage), UNCHANGED <<stored, stack, opened, wire, requests, drafts>>
  PROVE  IntakeShape' /\ IntakeOrder'
<1> USE DEF IntakeOrder
<1>1. /\ attempt' = At(i, stage) /\ UNCHANGED hook
      /\ io' = Append(io, Wiping(i))
  BY DEF Clearing, Wiping
<1>2. /\ attempt' \in [Screens -> AttemptRows] /\ attempt'[i].stage = stage
      /\ \A j \in Screens : j # i => attempt'[j] = attempt[j]
  BY <1>1, AtIs DEF Stages
<1>3. Longer(io', io, 0, {}, Wiping(i)) /\ io' \in Seq(Operations)
  <2>1. io \in Seq(Operations) /\ Shorter(io, io, 0, {}) /\ Wiping(i) \in Operations
    BY SameIs, EmptyIsDraft DEF IntakeShape, Wiping, Operations
  <2>2. Longer(Append(io, Wiping(i)), io, 0, {}, Wiping(i))
    BY <2>1, AppendIs
  <2> QED
    BY <1>1, <2>2 DEF Longer
<1>4. IntakeShape'
  BY <1>1, <1>2, <1>3 DEF IntakeShape, AttemptRows
<1>5. QueueOrder'
  BY <1>1, <1>2, <1>3, <1>4, ClearKeepsOrder DEF QueueOrder, Busy
<1>6. HeardPosts'
  BY <1>2 DEF HeardPosts, IntakeShape
<1> QED
  BY <1>4, <1>5, <1>6 DEF QueueOrder

LEMMA PressOrders ==
  ASSUME IntakeShape, IntakeOrder, NEW i \in Screens, Press(i)
  PROVE  IntakeShape' /\ IntakeOrder'
<1> USE DEF IntakeOrder
<1>1. CASE ~Locked(hook[i].draft)
  BY <1>1, PressIs, WritesOrders DEF QueueOrder
<1>2. CASE Locked(hook[i].draft)
  <2>1. /\ InFront(i) /\ hook[i].ready /\ attempt[i].stage = "idle"
        /\ attempt' \in [Screens -> AttemptRows] /\ attempt'[i].stage = "checking"
        /\ \A j \in Screens : j # i => attempt'[j] = attempt[j]
        /\ UNCHANGED <<stored, io, stack, opened, hook, wire, requests, drafts>>
    BY <1>2, PressChecks
  <2>2. IntakeShape'
    BY <2>1 DEF IntakeShape, AttemptRows
  <2>3. QueueOrder'
    BY <2>1, <2>2, StageKeepsOrder DEF QueueOrder, NoneAwaits
  <2>4. HeardPosts'
    BY <2>1 DEF HeardPosts, IntakeShape
  <2> QED
    BY <2>2, <2>3, <2>4 DEF QueueOrder
<1> QED
  BY <1>1, <1>2

LEMMA ListingOrders ==
  ASSUME IntakeShape, IntakeOrder, NEW i \in Screens, ListExisting(i)
  PROVE  IntakeShape' /\ IntakeOrder'
<1> USE DEF IntakeOrder
<1>1. CASE Mounted(i)
  <2>1. /\ Writes(i, Submitting(i), TRUE) /\ attempt[i].stage = "noted"
        /\ attempt'[i].stage = "saving" /\ attempt'[i].draft = Submitting(i)
    BY <1>1, ListingWrites
  <2> QED
    BY <2>1, WritesOrders DEF QueueOrder, Busy
<1>2. CASE ~Mounted(i)
  <2>1. /\ wire' = wire \union {Post(i, Submitting(i))}
        /\ attempt[i].stage = "noted" /\ attempt'[i].stage = "posting"
        /\ attempt'[i].draft = Submitting(i) /\ attempt' \in [Screens -> AttemptRows]
        /\ \A j \in Screens : j # i => attempt'[j] = attempt[j]
        /\ UNCHANGED <<stored, io, stack, opened, hook, requests, drafts>>
    BY <1>2, ListingPosts
  <2>2. IntakeShape'
    <3>1. Post(i, Submitting(i)) \in [by: Screens, draft: IntakeDrafts, heard: BOOLEAN]
      BY SubmittingIs DEF Post
    <3>2. wire' \subseteq [by: Screens, draft: IntakeDrafts, heard: BOOLEAN]
      BY <2>1, <3>1 DEF IntakeShape
    <3> QED
      BY <2>1, <3>2 DEF IntakeShape, AttemptRows
  <2>3. QueueOrder'
    <3>1. attempt[i].stage \in NoneAwaits /\ QueueOrder
      BY <2>1 DEF NoneAwaits, Busy, QueueOrder
    <3>2. attempt'[i].stage \notin {"noting", "saving"}
      BY <2>1
    <3>5. Busy(i) \/ (InFront(i) /\ hook[i].ready)
      BY <2>1 DEF Busy
    <3>3. UNCHANGED <<io, stack, opened, hook>>
      BY <2>1
    <3>4. \A j \in Screens : j # i => attempt'[j] = attempt[j]
      BY <2>1
    <3> QED
      BY <2>2, <3>1, <3>2, <3>3, <3>4, <3>5, StageKeepsOrder
  <2>4. HeardPosts'
    BY <2>1 DEF HeardPosts, IntakeShape, Post
  <2> QED
    BY <2>2, <2>3, <2>4 DEF QueueOrder
<1> QED
  BY <1>1, <1>2

LEMMA ChangeOrders ==
  ASSUME IntakeShape, IntakeOrder, NEW i \in Screens, NEW text \in Texts, Change(i, text)
  PROVE  IntakeShape' /\ IntakeOrder'
<1>1. Writes(i, Entered(i, text), FALSE) /\ hook[i].ready /\ attempt' = attempt
  BY ChangeIs
<1>2. IntakeShape' /\ QueueOrder'
  BY <1>1, WritesOrders DEF QueueOrder, IntakeOrder
<1>3. HeardPosts'
  BY <1>1 DEF HeardPosts, IntakeOrder, Writes
<1> QED
  BY <1>2, <1>3 DEF QueueOrder, IntakeOrder

LEMMA RetrySaveOrders ==
  ASSUME IntakeShape, IntakeOrder, NEW i \in Screens, RetrySave(i)
  PROVE  IntakeShape' /\ IntakeOrder'
<1>1. Writes(i, hook[i].draft, FALSE) /\ hook[i].ready /\ attempt' = attempt
  BY RetrySaveIs
<1>2. IntakeShape' /\ QueueOrder' /\ HeardPosts'
  BY <1>1, WritesOrders DEF QueueOrder, IntakeOrder
<1> QED
  BY <1>2 DEF QueueOrder, IntakeOrder

LEMMA RejectOrders ==
  ASSUME IntakeShape, IntakeOrder, NEW i \in Screens, Reject(i)
  PROVE  IntakeShape' /\ IntakeOrder'
<1> USE DEF IntakeOrder
<1>1. CASE Mounted(i)
  <2>1. /\ Writes(i, Undoing(i), TRUE) /\ attempt[i].stage = "refused"
        /\ attempt'[i].stage = "undoing"
    BY <1>1, RejectWrites
  <2> QED
    BY <2>1, WritesOrders DEF QueueOrder, Busy
<1>2. CASE ~Mounted(i)
  <2>1. /\ attempt[i].stage = "refused" /\ attempt' = At(i, "idle") /\ UNCHANGED <<io, hook>>
        /\ UNCHANGED <<stored, stack, opened, wire, requests, drafts>>
    BY <1>2 DEF Reject, Update
  <2>2. UNCHANGED <<stored, io, stack, opened, hook, wire, requests, drafts>>
    BY <2>1
  <2> QED
    BY <2>1, <2>2, FailCheckOrders
<1> QED
  BY <1>1, <1>2

LEMMA FinishOrders ==
  ASSUME IntakeShape, IntakeOrder, NEW i \in Screens, Finish(i)
  PROVE  IntakeShape' /\ IntakeOrder'
<1>1. /\ attempt[i].stage = "created" /\ Clearing(i, "clearing")
      /\ UNCHANGED <<stored, stack, opened, wire, requests, drafts>>
  BY DEF Finish
<1> QED
  BY <1>1, ClearingOrders

LEMMA CheckOrders ==
  ASSUME IntakeShape, IntakeOrder, NEW i \in Screens, Check(i) \/ FailCheck(i)
  PROVE  IntakeShape' /\ IntakeOrder'
<1>1. CASE Check(i) /\ Cardinality(Matches(attempt[i].draft)) = 1
  <2>1. /\ attempt[i].stage = "checking" /\ Clearing(i, "settling")
        /\ UNCHANGED <<stored, stack, opened, wire, requests, drafts>>
    BY <1>1 DEF Check, Reconcile
  <2> QED
    BY <2>1, ClearingOrders
<1>2. CASE ~(Check(i) /\ Cardinality(Matches(attempt[i].draft)) = 1)
  <2>1. /\ attempt[i].stage = "checking" /\ attempt' = At(i, "idle")
        /\ UNCHANGED <<stored, io, stack, opened, hook, wire, requests, drafts>>
    BY <1>2 DEF Check, Reconcile, FailCheck
  <2> QED
    BY <2>1, FailCheckOrders
<1> QED
  BY <1>1, <1>2

LEMMA LosePostIs ==
  ASSUME IntakeShape, NEW i \in Screens, LosePost(i)
  PROVE  /\ attempt[i].stage \in {"posting", "created", "refused"} /\ attempt' = At(i, "checking")
         /\ wire' \subseteq [by: Screens, draft: IntakeDrafts, heard: BOOLEAN]
         /\ \A p \in wire' : /\ p.heard => p \in wire /\ p.by # i
                             /\ \E q \in wire : p.draft = q.draft
         /\ \A p, q \in wire' : (\A a, b \in wire : a.draft = p.draft /\ b.draft = q.draft => a = b)
                                  => p = q
         /\ UNCHANGED <<stored, io, stack, opened, hook, requests, astray, drafts>>
<1> DEFINE post == {p \in wire : p.by = i /\ p.heard}
<1>1. /\ attempt[i].stage \in {"posting", "created", "refused"} /\ attempt' = At(i, "checking")
      /\ UNCHANGED <<stored, io, stack, opened, hook, requests, astray, drafts>>
      /\ wire' \in {wire \ post, (wire \ post) \union {Unheard(p) : p \in post}}
  BY DEF LosePost
<1>2. \A p \in wire : /\ Unheard(p) \in [by: Screens, draft: IntakeDrafts, heard: BOOLEAN]
                      /\ ~Unheard(p).heard /\ Unheard(p).draft = p.draft
  BY DEF Unheard, IntakeShape
<1>3. \A p \in wire' : p \in wire \ post \/ \E q \in post : p = Unheard(q)
  BY <1>1
<1>4. wire' \subseteq [by: Screens, draft: IntakeDrafts, heard: BOOLEAN]
  BY <1>2, <1>3 DEF IntakeShape
<1>5. \A p \in wire' : /\ p.heard => p \in wire /\ p.by # i
                       /\ \E q \in wire : p.draft = q.draft
  BY <1>2, <1>3
<1>6. ASSUME NEW p \in wire', NEW q \in wire',
             \A a, b \in wire : a.draft = p.draft /\ b.draft = q.draft => a = b
      PROVE  p = q
  <2>1. PICK a \in wire : (p = a /\ a \notin post) \/ (p = Unheard(a) /\ a \in post)
    BY <1>3
  <2>2. PICK b \in wire : (q = b /\ b \notin post) \/ (q = Unheard(b) /\ b \in post)
    BY <1>3
  <2>3. a = b
    BY <1>2, <1>6, <2>1, <2>2
  <2> QED
    BY <2>1, <2>2, <2>3
<1> QED
  BY <1>1, <1>4, <1>5, <1>6

LEMMA LosePostOrders ==
  ASSUME IntakeShape, IntakeOrder, NEW i \in Screens, LosePost(i)
  PROVE  IntakeShape' /\ IntakeOrder'
<1> USE DEF IntakeOrder
<1>1. /\ attempt[i].stage \in {"posting", "created", "refused"} /\ attempt' = At(i, "checking")
      /\ wire' \subseteq [by: Screens, draft: IntakeDrafts, heard: BOOLEAN]
      /\ \A p \in wire' : p.heard => p \in wire /\ p.by # i
      /\ UNCHANGED <<stored, io, stack, opened, hook, requests, drafts>>
  BY LosePostIs
<1>2. /\ attempt' \in [Screens -> AttemptRows] /\ attempt'[i].stage = "checking"
      /\ \A j \in Screens : j # i => attempt'[j] = attempt[j]
  BY <1>1, AtIs DEF Stages
<1>3. IntakeShape'
  BY <1>1, <1>2 DEF IntakeShape, AttemptRows
<1>4. QueueOrder'
  <2>1. attempt[i].stage \in NoneAwaits /\ QueueOrder
    BY <1>1 DEF NoneAwaits, QueueOrder
  <2>2. attempt'[i].stage \notin {"noting", "saving"}
    BY <1>2
  <2>3. UNCHANGED <<io, stack, opened, hook>>
    BY <1>1
  <2>4. Busy(i) \/ (InFront(i) /\ hook[i].ready)
    BY <1>1 DEF Busy
  <2> QED
    BY <1>2, <1>3, <2>1, <2>2, <2>3, <2>4, StageKeepsOrder
<1>5. HeardPosts'
  BY <1>1, <1>2 DEF HeardPosts, IntakeShape
<1> QED
  BY <1>3, <1>4, <1>5 DEF QueueOrder

Requesting(post) == [draft |-> post.draft.id, text |-> post.draft.submission.text]

LEMMA RequestIs ==
  ASSUME IntakeShape, NEW post \in wire
  PROVE  /\ Append(requests, Requesting(post)) \in Seq([draft: Nat, text: IntakeTexts])
         /\ DOMAIN Append(requests, Requesting(post)) = DOMAIN requests \union {Len(requests) + 1}
         /\ Len(requests) + 1 \notin DOMAIN requests
         /\ \A r \in DOMAIN requests : Append(requests, Requesting(post))[r] = requests[r]
         /\ Append(requests, Requesting(post))[Len(requests) + 1].draft = post.draft.id
<1>1. post.draft \in IntakeDrafts
  BY DEF IntakeShape
<1>2. Requesting(post) \in [draft: Nat, text: IntakeTexts] /\ Requesting(post).draft = post.draft.id
  BY <1>1 DEF Requesting, IntakeDrafts
<1> HIDE DEF Requesting
<1> QED
  BY <1>2 DEF IntakeShape

LEMMA ServePostOrders ==
  ASSUME IntakeShape, IntakeOrder, NEW post \in wire, ServePost(post)
  PROVE  IntakeShape' /\ IntakeOrder'
<1> USE DEF IntakeOrder
<1>1. /\ wire' = wire \ {post} /\ UNCHANGED <<stored, io, stack, opened, hook, drafts>>
      /\ requests' \in {requests, Append(requests, Requesting(post))}
      /\ \E stage \in {"created", "refused"} :
           attempt' = IF post.heard THEN At(post.by, stage) ELSE attempt
  BY DEF ServePost, Requesting
<1>2. PICK stage \in {"created", "refused"} :
        attempt' = IF post.heard THEN At(post.by, stage) ELSE attempt
  BY <1>1
<1>3. requests' \in Seq([draft: Nat, text: IntakeTexts])
  BY <1>1, RequestIs DEF IntakeShape
<1>4. post.by \in Screens /\ post.draft \in IntakeDrafts /\ post.heard \in BOOLEAN
  BY DEF IntakeShape
<1>5. CASE post.heard
  <2>1. PICK i \in Screens : i = post.by
    BY <1>4
  <2>2. /\ attempt' \in [Screens -> AttemptRows] /\ attempt'[i].stage = stage
        /\ \A j \in Screens : j # i => attempt'[j] = attempt[j]
    BY <1>2, <1>5, <2>1, AtIs DEF Stages
  <2>3. IntakeShape'
    BY <1>1, <1>3, <2>2 DEF IntakeShape, AttemptRows
  <2>4. attempt[i].stage = "posting" /\ attempt[i].draft = post.draft
    BY <1>5, <2>1 DEF HeardPosts
  <2>5. QueueOrder'
    <3>1. attempt[i].stage \in NoneAwaits /\ QueueOrder
      BY <2>4 DEF NoneAwaits, QueueOrder
    <3>2. attempt'[i].stage \notin {"noting", "saving"}
      BY <2>2
    <3>3. UNCHANGED <<io, stack, opened, hook>>
      BY <1>1
    <3>4. Busy(i) \/ (InFront(i) /\ hook[i].ready)
      BY <2>4 DEF Busy
    <3> QED
      BY <2>2, <2>3, <3>1, <3>2, <3>3, <3>4, StageKeepsOrder
  <2>6. HeardPosts'
    <3>1. ASSUME NEW p \in wire, p.heard, p.by = i
          PROVE  p = post
      <4>1. p.draft = post.draft
        BY <2>4, <3>1 DEF HeardPosts
      <4>2. /\ p \in [by: Screens, draft: IntakeDrafts, heard: BOOLEAN]
            /\ post \in [by: Screens, draft: IntakeDrafts, heard: BOOLEAN]
        BY DEF IntakeShape
      <4>3. p.heard = post.heard
        BY <1>5, <3>1, <4>2
      <4> QED
        BY <2>1, <3>1, <4>1, <4>2, <4>3
    <3>2. \A p \in wire' : p \in wire /\ p # post
      BY <1>1
    <3>3. \A p \in wire : p.by \in Screens
      BY DEF IntakeShape
    <3> QED
      BY <2>2, <3>1, <3>2, <3>3 DEF HeardPosts
  <2> QED
    BY <2>3, <2>5, <2>6 DEF QueueOrder
<1>6. CASE ~post.heard
  <2>1. UNCHANGED <<stored, io, stack, opened, hook, drafts, attempt>> /\ wire' \subseteq wire
    BY <1>1, <1>2, <1>6
  <2>2. IntakeShape'
    BY <1>3, <2>1 DEF IntakeShape
  <2>3. StackGrows' /\ OnlyFrontWorks' /\ LoadsOfTheFront'
    BY <2>1 DEF StackGrows, OnlyFrontWorks, LoadsOfTheFront, Wanted, Mounted, InFront, Busy
  <2>4. WritesComeFirst' /\ OneIsAwaited' /\ HeardPosts'
    BY <2>1 DEF WritesComeFirst, OneIsAwaited, HeardPosts, Wanted, Saving, Awaited, InFront,
       Busy
  <2> QED
    BY <2>2, <2>3, <2>4
<1> QED
  BY <1>5, <1>6

-----------------------------------------------------------------------------
\* What the storage does first.
LEMMA HeadIs ==
  ASSUME IntakeShape, io # <<>>
  PROVE  /\ 1 \in DOMAIN io /\ Head(io) = io[1] /\ Shorter(Tail(io), io, 1, {})
         /\ io[1] \in Operations /\ io[1].by \in Screens /\ io[1].draft \in IntakeDrafts
         /\ io[1].wakes \in BOOLEAN
  BY TailIs, OperationsAre DEF IntakeShape

LEMMA PopOrders ==
  ASSUME IntakeShape, IntakeShape', QueueOrder, Shorter(io', io, 1, {}), 1 \in DOMAIN io,
         UNCHANGED <<stack, opened>>,
         \A k \in Screens : InFront(k) /\ hook'[k].ready =>
           \/ hook[k].ready
           \/ \A n \in DOMAIN io : n > 1 => ~Wanted(n) /\ ~Saving(n),
         NEW i \in Screens, io[1].by = i,
         \A j \in Screens : j # i => attempt'[j] = attempt[j],
         \/ ~Awaited(1) /\ attempt'[i] = attempt[i]
         \/ /\ Awaited(1) /\ attempt'[i].stage \notin {"noting", "saving"}
            /\ Busy(i)' => Busy(i)
  PROVE  QueueOrder'
<1> USE DEF QueueOrder
<1>1. \A k \in Screens : Busy(k)' => Busy(k)
  BY DEF Busy
<1>2. StackGrows' /\ OnlyFrontWorks' /\ LoadsOfTheFront' /\ WritesComeFirst'
  BY <1>1, PopKeepsOrder
<1>3. NothingBegun(1) /\ io' \in Seq(Operations)
  BY ShorterBegins DEF Shorter
<1>4. \A j \in Screens :
        \/ /\ attempt'[j] = attempt[j]
           /\ \A n \in DOMAIN io : n <= 1 /\ Awaited(n) => io[n].by # j
        \/ /\ attempt'[j].stage \notin {"noting", "saving"}
           /\ \A n \in DOMAIN io : n > 1 /\ Awaited(n) => io[n].by # j
  <2>1. \A n \in DOMAIN io : n <= 1 => n = 1
    BY DEF IntakeShape
  <2>2. ASSUME NEW n \in DOMAIN io, n > 1, Awaited(n), Awaited(1)
        PROVE  io[n].by # i
    <3>1. io[n].by = io[1].by => n = 1
      BY <2>2 DEF OneIsAwaited
    <3> QED
      BY <2>2, <3>1
  <2> QED
    BY <2>1, <2>2
<1>5. OneIsAwaited'
  BY <1>3, <1>4, AwaitedKeeps
<1> QED
  BY <1>2, <1>5

LEMMA AwaitedBusy ==
  ASSUME IntakeShape, OneIsAwaited, NEW n \in DOMAIN io, Awaited(n)
  PROVE  /\ Busy(io[n].by)
         /\ Saving(n) => attempt[io[n].by].stage \in {"noting", "saving", "undoing"}
         /\ ~Saving(n) => attempt[io[n].by].stage \in {"clearing", "settling"}
  BY OperationsAre DEF OneIsAwaited, Awaited, Saving, Busy

LEMMA EndLoadIs ==
  ASSUME IntakeShape, EndLoad
  PROVE  /\ io # <<>> /\ io[1].op = "load" /\ io' = Tail(io)
         /\ hook' \in [Screens -> HookRows]
         /\ \/ \A j \in Screens :
                 /\ hook'[j].kind = hook[j].kind /\ hook'[j].ready = hook[j].ready
                 /\ hook'[j].draft = hook[j].draft
                 /\ hook[j].error => hook'[j].error
                 /\ hook'[j].error /\ ~hook[j].error => io[1].by = j /\ Mounted(j)
            \/ /\ Wanted(1) /\ hook'[io[1].by].kind = hook[io[1].by].kind
               /\ hook'[io[1].by].ready /\ ~hook'[io[1].by].error
               /\ hook'[io[1].by].draft = stored
               /\ \A j \in Screens : j # io[1].by => hook'[j] = hook[j]
         /\ UNCHANGED <<stored, stack, opened, attempt, wire, requests, astray, drafts>>
<1>1. /\ io # <<>> /\ Head(io).op = "load" /\ io' = Tail(io)
      /\ UNCHANGED <<stored, stack, opened, attempt, wire, requests, astray, drafts>>
  BY DEF EndLoad
<1>2. PICK i : i = Head(io).by
  OBVIOUS
<1>3. io[1] = Head(io) /\ i \in Screens /\ io[1].by = i
  BY <1>1, <1>2, HeadIs
<1>4. \/ hook' = [hook EXCEPT ![i].error = TRUE] /\ Mounted(i)
      \/ /\ hook' = [hook EXCEPT ![i].ready = TRUE, ![i].error = FALSE, ![i].draft = stored]
         /\ Head(io).wakes
      \/ hook' = hook
  BY <1>2 DEF EndLoad
<1>5. hook \in [Screens -> HookRows] /\ stored \in IntakeDrafts
  BY DEF IntakeShape
<1>6. CASE hook' = [hook EXCEPT ![i].error = TRUE] /\ Mounted(i)
  BY <1>1, <1>3, <1>5, <1>6 DEF HookRows
<1>7. CASE /\ hook' = [hook EXCEPT ![i].ready = TRUE, ![i].error = FALSE, ![i].draft = stored]
           /\ Head(io).wakes
  <2> DEFINE new == [hook[i] EXCEPT !.ready = TRUE, !.error = FALSE, !.draft = stored]
  <2>3. hook[i] \in HookRows
    BY <1>3, <1>5
  <2>4. /\ new \in HookRows /\ new.kind = hook[i].kind /\ new.ready = TRUE /\ new.error = FALSE
        /\ new.draft = stored
    BY <1>5, <2>3 DEF HookRows
  <2>5. hook' = [hook EXCEPT ![i] = new]
    BY <1>3, <1>5, <1>7, <2>3 DEF HookRows
  <2> HIDE DEF new
  <2>1. hook' \in [Screens -> HookRows]
    BY <1>3, <1>5, <2>4, <2>5
  <2>2. /\ hook'[i].kind = hook[i].kind /\ hook'[i].ready = TRUE /\ hook'[i].error = FALSE
        /\ hook'[i].draft = stored /\ \A j \in Screens : j # i => hook'[j] = hook[j]
    BY <1>3, <1>5, <2>4, <2>5
  <2> QED
    BY <1>1, <1>3, <1>7, <2>1, <2>2 DEF Wanted
<1>8. CASE hook' = hook
  BY <1>1, <1>3, <1>5, <1>8
<1> QED
  BY <1>4, <1>6, <1>7, <1>8

LEMMA NothingBehindRead ==
  ASSUME IntakeShape, LoadsOfTheFront, WritesComeFirst, 1 \in DOMAIN io, Wanted(1),
         NEW k \in Screens, InFront(k), io[1].by = k
  PROVE  \A n \in DOMAIN io : n > 1 => ~Wanted(n) /\ ~Saving(n)
<1> SUFFICES ASSUME NEW n \in DOMAIN io, n > 1
             PROVE  ~Wanted(n) /\ ~Saving(n)
  OBVIOUS
<1>1. ~Saving(n)
  BY DEF WritesComeFirst
<1>2. ASSUME Wanted(n)
      PROVE  FALSE
  <2>1. io[n].by # k
    BY <1>2 DEF LoadsOfTheFront
  <2>2. PICK q \in DOMAIN io : q > n /\ Wanted(q) /\ io[q].by = k
    BY <1>2, <2>1 DEF LoadsOfTheFront
  <2>3. q = 1
    BY <2>2 DEF LoadsOfTheFront
  <2> QED
    BY <2>2, <2>3, OperationsAre
<1> QED
  BY <1>1, <1>2

LEMMA EndLoadOrders ==
  ASSUME IntakeShape, IntakeOrder, EndLoad
  PROVE  IntakeShape' /\ IntakeOrder'
<1> USE DEF IntakeOrder
<1>1. /\ io # <<>> /\ io[1].op = "load" /\ io' = Tail(io) /\ hook' \in [Screens -> HookRows]
      /\ UNCHANGED <<stored, stack, opened, attempt, wire, requests, drafts>>
      /\ \/ \A j \in Screens : hook'[j].ready = hook[j].ready
         \/ Wanted(1) /\ \A j \in Screens : j # io[1].by => hook'[j] = hook[j]
  BY EndLoadIs
<1>2. 1 \in DOMAIN io /\ Shorter(io', io, 1, {}) /\ io[1].by \in Screens
  BY <1>1, HeadIs
<1>3. IntakeShape'
  BY <1>1, <1>2 DEF IntakeShape, Shorter
<1>4. ASSUME NEW k \in Screens, InFront(k), hook'[k].ready, ~hook[k].ready
      PROVE  \A n \in DOMAIN io : n > 1 => ~Wanted(n) /\ ~Saving(n)
  <2>1. Wanted(1) /\ io[1].by = k
    BY <1>1, <1>4
  <2> QED
    BY <1>2, <1>4, <2>1, NothingBehindRead
<1>5. QueueOrder'
  <2>1. ~Awaited(1) /\ \A j \in Screens : attempt'[j] = attempt[j]
    BY <1>1 DEF Awaited
  <2>2. UNCHANGED <<stack, opened>> /\ QueueOrder
    BY <1>1 DEF QueueOrder
  <2> QED
    BY <1>2, <1>3, <1>4, <2>1, <2>2, PopOrders
<1>6. HeardPosts'
  BY <1>1 DEF HeardPosts
<1> QED
  BY <1>3, <1>5, <1>6 DEF QueueOrder

\* The write at the head opens the next screen.
Continuing ==
  io[1].wakes /\ attempt[io[1].by].stage = "noting" /\ hook[io[1].by].kind = "edit"

LEMMA PostIs ==
  ASSUME NEW i \in Screens, NEW d \in IntakeDrafts
  PROVE  /\ Post(i, d) \in [by: Screens, draft: IntakeDrafts, heard: BOOLEAN]
         /\ Post(i, d).by = i /\ Post(i, d).draft = d /\ Post(i, d).heard
  BY DEF Post

Unmarked(i) == IF Mounted(i) THEN [hook EXCEPT ![i].error = FALSE] ELSE hook
Marked(i) == IF Mounted(i) THEN [hook EXCEPT ![i].error = TRUE] ELSE hook

LEMMA HooksEnd ==
  ASSUME IntakeShape, NEW i \in Screens, NEW hooks,
         hooks = Unmarked(i)
  PROVE  /\ hooks \in [Screens -> HookRows]
         /\ \A j \in Screens : /\ hooks[j].kind = hook[j].kind /\ hooks[j].ready = hook[j].ready
                               /\ hooks[j].draft = hook[j].draft
                               /\ j # i => hooks[j] = hook[j]
         /\ Mounted(i) => ~hooks[i].error
<1>1. hook \in [Screens -> HookRows]
  BY DEF IntakeShape
<1>2. CASE Mounted(i)
  BY <1>1, <1>2 DEF HookRows, Unmarked
<1>3. CASE ~Mounted(i)
  BY <1>1, <1>3 DEF Unmarked
<1> QED
  BY <1>2, <1>3

LEMMA HooksFail ==
  ASSUME IntakeShape, NEW i \in Screens, NEW hooks,
         hooks = Marked(i)
  PROVE  /\ hooks \in [Screens -> HookRows]
         /\ \A j \in Screens : /\ hooks[j].kind = hook[j].kind /\ hooks[j].ready = hook[j].ready
                               /\ hooks[j].draft = hook[j].draft
                               /\ j # i => hooks[j] = hook[j]
         /\ Mounted(i) => hooks[i].error = TRUE
<1>1. hook \in [Screens -> HookRows]
  BY DEF IntakeShape
<1>2. CASE Mounted(i)
  BY <1>1, <1>2 DEF HookRows, Marked
<1>3. CASE ~Mounted(i)
  BY <1>1, <1>3 DEF Marked
<1> QED
  BY <1>2, <1>3

LEMMA EndSaveIs ==
  ASSUME IntakeShape, OneIsAwaited, EndSave, ~Continuing, NEW i, i = io[1].by
  PROVE  /\ io # <<>> /\ Saving(1) /\ io' = Tail(io) /\ stored' = io[1].draft
         /\ hook' \in [Screens -> HookRows] /\ attempt' \in [Screens -> AttemptRows]
         /\ wire' \subseteq [by: Screens, draft: IntakeDrafts, heard: BOOLEAN]
         /\ \A j \in Screens : /\ hook'[j].kind = hook[j].kind /\ hook'[j].ready = hook[j].ready
                               /\ hook'[j].draft = hook[j].draft
                               /\ j # i => hook'[j] = hook[j] /\ attempt'[j] = attempt[j]
         /\ Mounted(i) => ~hook'[i].error
         /\ attempt'[i].draft = attempt[i].draft
         /\ ~io[1].wakes => attempt' = attempt /\ wire' = wire
         /\ io[1].wakes =>
              /\ attempt[i].stage \in {"noting", "saving", "undoing"}
              /\ attempt[i].stage = "noting" => /\ attempt'[i].stage = "noted" /\ wire' = wire
                                                /\ hook[i].kind = "review"
              /\ attempt[i].stage = "saving" => /\ attempt'[i].stage = "posting"
                                                /\ wire' = wire \union {Post(i, attempt[i].draft)}
              /\ attempt[i].stage = "undoing" => attempt'[i].stage = "idle" /\ wire' = wire
         /\ UNCHANGED <<stack, opened, requests, astray, drafts>>
<1>1. io # <<>> /\ Head(io).op = "save" /\ stored' = Head(io).draft /\ UNCHANGED <<requests, drafts>>
  BY DEF EndSave
<1>2. /\ Head(io) = io[1] /\ i \in Screens /\ 1 \in DOMAIN io /\ io[1].draft \in IntakeDrafts
      /\ io[1].wakes \in BOOLEAN
  BY <1>1, HeadIs
<1>3. PICK hooks : hooks = Unmarked(i)
  OBVIOUS
<1>4. /\ hook' = hooks /\ io' = Tail(io)
      /\ attempt' = IF ~io[1].wakes THEN attempt
                    ELSE At(i, CASE attempt[i].stage = "noting" -> "noted"
                                 [] attempt[i].stage = "saving" -> "posting"
                                 [] OTHER -> "idle")
      /\ wire' = IF io[1].wakes /\ attempt[i].stage = "saving"
                 THEN wire \union {Post(i, attempt[i].draft)} ELSE wire
      /\ UNCHANGED <<stack, opened, astray>>
  BY <1>1, <1>2, <1>3 DEF EndSave, Continuing, Unmarked
<1>5. /\ hook' \in [Screens -> HookRows]
      /\ \A j \in Screens : /\ hook'[j].kind = hook[j].kind /\ hook'[j].ready = hook[j].ready
                            /\ hook'[j].draft = hook[j].draft
                            /\ j # i => hook'[j] = hook[j]
      /\ Mounted(i) => ~hook'[i].error
  <2>1. i \in Screens
    BY <1>2
  <2>2. /\ hooks \in [Screens -> HookRows]
        /\ \A j \in Screens : /\ hooks[j].kind = hook[j].kind /\ hooks[j].ready = hook[j].ready
                              /\ hooks[j].draft = hook[j].draft
                              /\ j # i => hooks[j] = hook[j]
        /\ Mounted(i) => ~hooks[i].error
    BY <1>3, <2>1, HooksEnd
  <2>3. hook' = hooks
    BY <1>4
  <2> QED
    BY <2>2, <2>3
<1>6. Saving(1)
  BY <1>1, <1>2 DEF Saving
<1>7. attempt \in [Screens -> AttemptRows] /\ attempt[i].draft \in IntakeDrafts
      /\ wire \subseteq [by: Screens, draft: IntakeDrafts, heard: BOOLEAN]
  BY <1>2 DEF IntakeShape, AttemptRows
<1>8. CASE ~io[1].wakes
  BY <1>1, <1>2, <1>4, <1>5, <1>6, <1>7, <1>8
<1>9. CASE io[1].wakes
  <2>1. attempt[i].stage \in {"noting", "saving", "undoing"}
    BY <1>2, <1>6, <1>9 DEF OneIsAwaited
  <2>2. PICK to \in Stages :
          /\ attempt' = At(i, to)
          /\ attempt[i].stage = "noting" => to = "noted"
          /\ attempt[i].stage = "saving" => to = "posting"
          /\ attempt[i].stage = "undoing" => to = "idle"
    BY <1>4, <1>9, <2>1 DEF Stages
  <2>3. /\ attempt' \in [Screens -> AttemptRows] /\ attempt'[i].stage = to
        /\ attempt'[i].draft = attempt[i].draft
        /\ \A j \in Screens : j # i => attempt'[j] = attempt[j]
    BY <1>2, <2>2, AtIs
  <2>4. attempt[i].stage = "noting" => hook[i].kind = "review"
    BY <1>2, <1>9 DEF Continuing, IntakeShape, HookRows
  <2>5. wire' \subseteq [by: Screens, draft: IntakeDrafts, heard: BOOLEAN]
    BY <1>2, <1>4, <1>7, PostIs
  <2>6. /\ attempt[i].stage = "saving" => wire' = wire \union {Post(i, attempt[i].draft)}
        /\ attempt[i].stage # "saving" => wire' = wire
    BY <1>4, <1>9
  <2> QED
    BY <1>1, <1>2, <1>4, <1>5, <1>6, <1>9, <2>1, <2>2, <2>3, <2>4, <2>5, <2>6
<1> QED
  BY <1>2, <1>8, <1>9

LEMMA EndSaveOrders ==
  ASSUME IntakeShape, IntakeOrder, EndSave, ~Continuing
  PROVE  IntakeShape' /\ IntakeOrder'
<1> USE DEF IntakeOrder
<1>1. PICK i : i = io[1].by
  OBVIOUS
<1>2. /\ io # <<>> /\ Saving(1) /\ io' = Tail(io) /\ stored' = io[1].draft
      /\ hook' \in [Screens -> HookRows] /\ attempt' \in [Screens -> AttemptRows]
      /\ wire' \subseteq [by: Screens, draft: IntakeDrafts, heard: BOOLEAN]
      /\ \A j \in Screens : /\ hook'[j].ready = hook[j].ready
                            /\ j # i => attempt'[j] = attempt[j]
      /\ attempt'[i].draft = attempt[i].draft
      /\ ~io[1].wakes => attempt' = attempt /\ wire' = wire
      /\ UNCHANGED <<stack, opened, requests, drafts>>
  BY <1>1, EndSaveIs
<1>3. io[1].wakes =>
        /\ attempt[i].stage \in {"noting", "saving", "undoing"}
        /\ attempt'[i].stage \in {"noted", "posting", "idle"}
        /\ wire' = wire \/ (attempt'[i].stage = "posting" /\ wire' = wire \union {Post(i, attempt[i].draft)})
  <2>1. io[1].wakes =>
              /\ attempt[i].stage \in {"noting", "saving", "undoing"}
              /\ attempt[i].stage = "noting" => attempt'[i].stage = "noted" /\ wire' = wire
              /\ attempt[i].stage = "saving" => /\ attempt'[i].stage = "posting"
                                                /\ wire' = wire \union {Post(i, attempt[i].draft)}
              /\ attempt[i].stage = "undoing" => attempt'[i].stage = "idle" /\ wire' = wire
    BY <1>1, EndSaveIs
  <2> QED
    BY <2>1
<1>4. /\ 1 \in DOMAIN io /\ Shorter(io', io, 1, {}) /\ i \in Screens
      /\ io[1].draft \in IntakeDrafts /\ io[1].wakes \in BOOLEAN
  BY <1>1, <1>2, HeadIs
<1>5. IntakeShape'
  BY <1>2, <1>4 DEF IntakeShape, AttemptRows, Shorter
<1>6. QueueOrder'
  <2>1. \/ ~Awaited(1) /\ attempt'[i] = attempt[i]
        \/ Awaited(1) /\ attempt'[i].stage \notin {"noting", "saving"} /\ (Busy(i)' => Busy(i))
    BY <1>2, <1>3, <1>4 DEF Awaited, Saving, Busy
  <2>2. UNCHANGED <<stack, opened>> /\ QueueOrder
    BY <1>2 DEF QueueOrder
  <2> QED
    BY <1>1, <1>2, <1>4, <1>5, <2>1, <2>2, PopOrders
<1>7. HeardPosts'
  <2>1. ASSUME NEW p \in wire, p.heard
        PROVE  /\ attempt'[p.by].stage = "posting" /\ attempt'[p.by].draft = p.draft
    <3>1. p.by \in Screens /\ attempt[p.by].stage = "posting" /\ attempt[p.by].draft = p.draft
      BY <2>1 DEF HeardPosts, IntakeShape
    <3>2. p.by # i \/ ~io[1].wakes
      BY <1>3, <3>1
    <3> QED
      BY <1>2, <3>1, <3>2
  <2>2. \A p \in wire' : p \in wire \/ (p = Post(i, attempt[i].draft) /\ attempt'[i].stage = "posting")
    BY <1>2, <1>3, <1>4
  <2>3. Post(i, attempt[i].draft).by = i /\ Post(i, attempt[i].draft).draft = attempt[i].draft
    BY DEF Post
  <2> QED
    BY <1>2, <2>1, <2>2, <2>3 DEF HeardPosts
<1> QED
  BY <1>5, <1>6, <1>7 DEF QueueOrder

LEMMA ContinueIs ==
  ASSUME IntakeShape, EndSave, Continuing, NEW i, i = io[1].by, NEW x, x = opened + 1
  PROVE  /\ io # <<>> /\ Saving(1) /\ stored' = io[1].draft /\ io[1].wakes
         /\ i \in Screens /\ attempt[i].stage = "noting" /\ hook[i].kind = "edit"
         /\ opened' = x /\ x \in Screens
         /\ stack' = Append(stack, x) /\ stack' \in Seq(Screens)
         /\ ToSet(stack') = ToSet(stack) \union {x} /\ stack' # <<>> /\ Last(stack') = x
         /\ Longer(io', io, 1, {x}, Reading(x)) /\ io' \in Seq(Operations)
         /\ hook' \in [Screens -> HookRows]
         /\ \A j \in Screens : j # x => /\ hook'[j].kind = hook[j].kind
                                        /\ hook'[j].ready = hook[j].ready
                                        /\ hook'[j].draft = hook[j].draft
         /\ hook'[x].kind = "review" /\ ~hook'[x].ready /\ hook'[x].draft = EmptyDraft
         /\ attempt' \in [Screens -> AttemptRows] /\ attempt'[i].stage = "idle"
         /\ attempt'[i].draft = attempt[i].draft
         /\ \A j \in Screens : j # i => attempt'[j] = attempt[j]
         /\ astray' = IF Mounted(i) THEN astray ELSE astray \union {attempt[i].draft.id}
         /\ UNCHANGED <<wire, requests, drafts>>
<1>1. io # <<>> /\ Head(io).op = "save" /\ stored' = Head(io).draft /\ UNCHANGED <<requests, drafts>>
  BY DEF EndSave
<1>2. /\ Head(io) = io[1] /\ i \in Screens /\ 1 \in DOMAIN io /\ io[1].wakes \in BOOLEAN
      /\ Shorter(Tail(io), io, 1, {})
  BY <1>1, HeadIs
<1>3. PICK hooks : hooks = Unmarked(i)
  OBVIOUS
<1>4. Continue(i, hooks) /\ UNCHANGED wire
  BY <1>1, <1>2, <1>3 DEF EndSave, Continuing, Unmarked
<1>5. /\ Push("review", Tail(io), hooks) /\ attempt' = At(i, "idle")
      /\ astray' = IF Mounted(i) THEN astray ELSE astray \union {attempt[i].draft.id}
  BY <1>4 DEF Continue
<1>6. /\ hooks \in [Screens -> HookRows]
      /\ \A j \in Screens : /\ hooks[j].kind = hook[j].kind /\ hooks[j].ready = hook[j].ready
                            /\ hooks[j].draft = hook[j].draft
  <2>1. i \in Screens
    BY <1>2
  <2> QED
    BY <1>3, <2>1, HooksEnd
<1>7. 1 \in {0, 1} /\ "review" \in {"edit", "review"}
  OBVIOUS
<1>8. /\ opened' = x /\ x \in Screens
      /\ stack' = Append(stack, x) /\ stack' \in Seq(Screens)
      /\ ToSet(stack') = ToSet(stack) \union {x} /\ stack' # <<>> /\ Last(stack') = x
      /\ Longer(io', io, 1, {x}, Reading(x)) /\ io' \in Seq(Operations)
      /\ hook' \in [Screens -> HookRows]
      /\ \A j \in Screens : j # x => hook'[j] = hooks[j]
      /\ hook'[x].kind = "review" /\ ~hook'[x].ready /\ hook'[x].draft = EmptyDraft
  <2>1. Shorter(Tail(io), io, 1, {}) /\ hooks \in [Screens -> HookRows]
        /\ Push("review", Tail(io), hooks)
    BY <1>2, <1>5, <1>6
  <2> HIDE <1>3, <1>4
  <2> QED
    BY <1>7, <2>1, PushIs, SMTT(30)
<1>9. /\ attempt' \in [Screens -> AttemptRows] /\ attempt'[i].stage = "idle"
      /\ attempt'[i].draft = attempt[i].draft
      /\ \A j \in Screens : j # i => attempt'[j] = attempt[j]
  BY <1>2, <1>5, AtIs DEF Stages
<1>10. Saving(1) /\ io[1].wakes /\ attempt[i].stage = "noting" /\ hook[i].kind = "edit"
  BY <1>1, <1>2 DEF Saving, Continuing
<1> QED
  BY <1>1, <1>2, <1>4, <1>5, <1>6, <1>8, <1>9, <1>10

LEMMA ContinueOrders ==
  ASSUME IntakeShape, IntakeOrder, EndSave, Continuing
  PROVE  IntakeShape' /\ IntakeOrder'
<1> USE DEF IntakeOrder
<1>1. PICK i : i = io[1].by
  OBVIOUS
<1>2. PICK x : x = opened + 1
  OBVIOUS
<1>3. /\ io # <<>> /\ Saving(1) /\ stored' = io[1].draft /\ io[1].wakes
      /\ i \in Screens /\ attempt[i].stage = "noting"
      /\ opened' = x /\ x \in Screens
      /\ stack' = Append(stack, x) /\ stack' \in Seq(Screens)
      /\ ToSet(stack') = ToSet(stack) \union {x} /\ stack' # <<>> /\ Last(stack') = x
      /\ Longer(io', io, 1, {x}, Reading(x)) /\ io' \in Seq(Operations)
      /\ hook' \in [Screens -> HookRows] /\ ~hook'[x].ready
      /\ attempt' \in [Screens -> AttemptRows] /\ attempt'[i].stage = "idle"
      /\ \A j \in Screens : j # i => attempt'[j] = attempt[j]
      /\ UNCHANGED <<wire, requests, drafts>>
  <2>1. EndSave /\ Continuing /\ IntakeShape
    OBVIOUS
  <2> HIDE DEF IntakeOrder
  <2> QED
    BY <1>1, <1>2, <2>1, ContinueIs, SMTT(60)
<1>4. 1 \in DOMAIN io /\ io[1].draft \in IntakeDrafts /\ Awaited(1)
  BY <1>3, HeadIs DEF Awaited, Saving
<1>5. IntakeShape'
  BY <1>2, <1>3, <1>4, ScreensAre DEF IntakeShape, AttemptRows
<1>6. ASSUME NEW j \in Screens, Busy(j)'
      PROVE  Busy(j) /\ ~Mounted(j)
  <2>1. j # i /\ Busy(j)
    BY <1>3, <1>6 DEF Busy
  <2>2. ASSUME Mounted(j)
        PROVE  FALSE
    <3>1. InFront(j)
      BY <2>1, <2>2 DEF OnlyFrontWorks
    <3> QED
      BY <1>1, <1>3, <1>4, <2>1, <3>1 DEF WritesComeFirst
  <2> QED
    BY <2>1, <2>2
<1>7. StackGrows' /\ OnlyFrontWorks' /\ LoadsOfTheFront' /\ WritesComeFirst'
  <2>1. 1 \in {0, 1}
    OBVIOUS
  <2> QED
    BY <1>2, <1>3, <1>5, <1>6, <2>1, PushKeepsOrder
<1>8. OneIsAwaited'
  <2>1. NothingBegun(1)
    BY <1>3, LoadBegins
  <2>2. \A n \in DOMAIN io : n <= 1 => n = 1
    BY DEF IntakeShape
  <2>3. ASSUME NEW n \in DOMAIN io, n > 1, Awaited(n)
        PROVE  io[n].by # i
    <3>1. io[n].by = io[1].by => n = 1
      BY <1>4, <2>3 DEF OneIsAwaited
    <3> QED
      BY <1>1, <2>3, <3>1
  <2> QED
    BY <1>1, <1>3, <2>1, <2>2, <2>3, AwaitedKeeps
<1>9. HeardPosts'
  BY <1>3 DEF HeardPosts, IntakeShape
<1> QED
  BY <1>5, <1>7, <1>8, <1>9

LEMMA FailSaveIs ==
  ASSUME IntakeShape, FailSave, NEW i, i = io[1].by
  PROVE  /\ io # <<>> /\ Saving(1) /\ io' = Tail(io) /\ stored' \in {stored, io[1].draft}
         /\ hook' \in [Screens -> HookRows] /\ attempt' \in [Screens -> AttemptRows]
         /\ \A j \in Screens : /\ hook'[j].kind = hook[j].kind /\ hook'[j].ready = hook[j].ready
                               /\ hook'[j].draft = hook[j].draft
                               /\ j # i => hook'[j] = hook[j] /\ attempt'[j] = attempt[j]
         /\ Mounted(i) => hook'[i].error
         /\ attempt'[i].draft = attempt[i].draft
         /\ ~io[1].wakes => attempt' = attempt
         /\ io[1].wakes => attempt'[i].stage = "idle"
         /\ UNCHANGED <<stack, opened, wire, requests, astray, drafts>>
<1>1. io # <<>> /\ Head(io).op = "save" /\ UNCHANGED <<stack, opened, wire, requests, drafts>>
  BY DEF FailSave
<1>2. /\ Head(io) = io[1] /\ i \in Screens /\ 1 \in DOMAIN io /\ io[1].draft \in IntakeDrafts
      /\ io[1].wakes \in BOOLEAN
  BY <1>1, HeadIs
<1>3. PICK hooks : hooks = Marked(i)
  OBVIOUS
<1>4. /\ hook' = hooks /\ io' = Tail(io)
      /\ attempt' = IF io[1].wakes THEN At(i, "idle") ELSE attempt
  BY <1>1, <1>2, <1>3 DEF FailSave, Marked
<1>5. stored' \in {stored, io[1].draft} /\ astray' = astray
  <2>1. Interrupted(io[1])
    BY <1>1, <1>2 DEF FailSave
  <2>2. io[1].op = "save"
    BY <1>1, <1>2
  <2> QED
    BY <2>1, <2>2 DEF Interrupted, ClearedAstray
<1>6. /\ hooks \in [Screens -> HookRows]
      /\ \A j \in Screens : /\ hooks[j].kind = hook[j].kind /\ hooks[j].ready = hook[j].ready
                            /\ hooks[j].draft = hook[j].draft
                            /\ j # i => hooks[j] = hook[j]
      /\ Mounted(i) => hooks[i].error = TRUE
  <2>1. i \in Screens
    BY <1>2
  <2>2. PICK k \in Screens : k = i
    BY <2>1
  <2>3. hooks = Marked(k)
    BY <1>3, <2>2
  <2>4. \A j \in Screens : /\ hooks[j].kind = hook[j].kind /\ hooks[j].ready = hook[j].ready
                           /\ hooks[j].draft = hook[j].draft
    BY <2>3, HooksFail, ZenonT(30)
  <2>5. /\ \A j \in Screens : j # k => hooks[j] = hook[j]
        /\ Mounted(k) => hooks[k].error = TRUE
        /\ hooks \in [Screens -> HookRows]
    BY <2>3, HooksFail
  <2> QED
    BY <2>2, <2>4, <2>5
<1>7. Saving(1)
  BY <1>1, <1>2 DEF Saving
<1>8. attempt \in [Screens -> AttemptRows]
  BY DEF IntakeShape, AttemptRows
<1>9. /\ attempt' \in [Screens -> AttemptRows]
      /\ \A j \in Screens : j # i => attempt'[j] = attempt[j]
      /\ attempt'[i].draft = attempt[i].draft
      /\ ~io[1].wakes => attempt' = attempt
      /\ io[1].wakes => attempt'[i].stage = "idle"
  <2>1. CASE io[1].wakes
    <3>1. attempt' = At(i, "idle") /\ i \in Screens
      BY <1>2, <1>4, <2>1
    <3> QED
      BY <2>1, <3>1, AtIs DEF Stages
  <2>2. CASE ~io[1].wakes
    BY <1>4, <1>8, <2>2
  <2> QED
    BY <2>1, <2>2
<1>10. hook' = hooks
  BY <1>4
<1> QED
  BY <1>1, <1>4, <1>5, <1>6, <1>7, <1>9, <1>10

LEMMA FailSaveOrders ==
  ASSUME IntakeShape, IntakeOrder, FailSave
  PROVE  IntakeShape' /\ IntakeOrder'
<1> USE DEF IntakeOrder
<1>1. PICK i : i = io[1].by
  OBVIOUS
<1>2. /\ io # <<>> /\ Saving(1) /\ io' = Tail(io) /\ stored' \in {stored, io[1].draft}
      /\ hook' \in [Screens -> HookRows] /\ attempt' \in [Screens -> AttemptRows]
      /\ \A j \in Screens : hook'[j].ready = hook[j].ready /\ (j # i => attempt'[j] = attempt[j])
      /\ ~io[1].wakes => attempt' = attempt
      /\ io[1].wakes => attempt'[i].stage = "idle"
      /\ UNCHANGED <<stack, opened, wire, requests, drafts>>
  BY <1>1, FailSaveIs
<1>3. /\ 1 \in DOMAIN io /\ Shorter(io', io, 1, {}) /\ i \in Screens
      /\ io[1].draft \in IntakeDrafts /\ io[1].wakes \in BOOLEAN
  BY <1>1, <1>2, HeadIs
<1>4. IntakeShape'
  BY <1>2, <1>3 DEF IntakeShape, AttemptRows, Shorter
<1>5. io[1].wakes => attempt[i].stage \in {"noting", "saving", "undoing"}
  BY <1>1, <1>2, <1>3 DEF OneIsAwaited
<1>6. QueueOrder'
  <2>1. \/ ~Awaited(1) /\ attempt'[i] = attempt[i]
        \/ Awaited(1) /\ attempt'[i].stage \notin {"noting", "saving"} /\ (Busy(i)' => Busy(i))
    BY <1>2, <1>3 DEF Awaited, Saving, Busy
  <2>2. UNCHANGED <<stack, opened>> /\ QueueOrder
    BY <1>2 DEF QueueOrder
  <2> QED
    BY <1>1, <1>2, <1>3, <1>4, <2>1, <2>2, PopOrders
<1>7. HeardPosts'
  <2>1. ASSUME NEW p \in wire, p.heard
        PROVE  /\ attempt'[p.by].stage = "posting" /\ attempt'[p.by].draft = p.draft
    <3>1. p.by \in Screens /\ attempt[p.by].stage = "posting" /\ attempt[p.by].draft = p.draft
      BY <2>1 DEF HeardPosts, IntakeShape
    <3>2. p.by # i \/ ~io[1].wakes
      BY <1>5, <3>1
    <3> QED
      BY <1>2, <3>1, <3>2
  <2> QED
    BY <1>2, <2>1 DEF HeardPosts
<1> QED
  BY <1>4, <1>6, <1>7 DEF QueueOrder

\* A clearing that ends or fails; the screens stay.
Cleared(i) ==
  /\ io # <<>> /\ io[1].op = "clear" /\ io[1].by = i /\ io' = Tail(io)
  /\ stored' \in {stored, EmptyDraft}
  /\ attempt' \in [Screens -> AttemptRows] /\ attempt'[i].stage \in {"idle", "checking"}
  /\ attempt[i].stage \in {"clearing", "settling"}
  /\ attempt'[i].draft = attempt[i].draft
  /\ \A j \in Screens : j # i => attempt'[j] = attempt[j]
  /\ astray' = ClearedAstray(io[1])

LEMMA FailClearIs ==
  ASSUME IntakeShape, OneIsAwaited, FailClear, NEW i, i = io[1].by
  PROVE  /\ Cleared(i)
         /\ UNCHANGED <<stack, opened, hook, wire, requests, drafts>>
<1>1. io # <<>> /\ Head(io).op = "clear" /\ UNCHANGED <<stack, opened, hook, wire, requests, drafts>>
  BY DEF FailClear
<1>2. Head(io) = io[1] /\ i \in Screens /\ 1 \in DOMAIN io /\ io[1].op = "clear"
  BY <1>1, HeadIs
<1>3. /\ attempt' = At(i, IF attempt[i].stage = "clearing" THEN "checking" ELSE "idle")
      /\ Interrupted(io[1]) /\ io' = Tail(io)
  BY <1>1, <1>2 DEF FailClear
<1>4. io[1].draft = EmptyDraft /\ attempt[i].stage \in {"clearing", "settling"}
  BY <1>2 DEF OneIsAwaited
<1>5. stored' \in {stored, EmptyDraft} /\ astray' = ClearedAstray(io[1])
  BY <1>3, <1>4 DEF Interrupted
<1>6. PICK to \in {"idle", "checking"} : attempt' = At(i, to)
  BY <1>3
<1>7. /\ attempt' \in [Screens -> AttemptRows] /\ attempt'[i].stage = to
      /\ attempt'[i].draft = attempt[i].draft
      /\ \A j \in Screens : j # i => attempt'[j] = attempt[j]
  BY <1>2, <1>6, AtIs DEF Stages
<1> QED
  BY <1>1, <1>2, <1>3, <1>4, <1>5, <1>6, <1>7 DEF Cleared

LEMMA EndClearIs ==
  ASSUME IntakeShape, OneIsAwaited, EndClear, NEW i, i = io[1].by
  PROVE  /\ io # <<>> /\ io[1].op = "clear" /\ stored' = EmptyDraft
         /\ i \in Screens /\ attempt[i].stage \in {"clearing", "settling"}
         /\ attempt' \in [Screens -> AttemptRows] /\ attempt'[i].stage = "idle"
         /\ attempt'[i].draft = attempt[i].draft
         /\ \A j \in Screens : j # i => attempt'[j] = attempt[j]
         /\ astray' = ClearedAstray(io[1])
         /\ \/ /\ Mounted(i) /\ stack' = <<>> /\ io' = Overtaken(Tail(io), Screens)
               /\ hook' = [j \in Screens |-> [NoHook EXCEPT !.kind = hook[j].kind]]
            \/ /\ ~Mounted(i) /\ io' = Tail(io) /\ UNCHANGED <<stack, hook>>
         /\ UNCHANGED <<opened, wire, requests, drafts>>
<1>1. /\ io # <<>> /\ Head(io).op = "clear" /\ stored' = EmptyDraft
      /\ UNCHANGED <<opened, wire, requests, drafts>>
  BY DEF EndClear
<1>2. Head(io) = io[1] /\ i \in Screens /\ 1 \in DOMAIN io /\ io[1].op = "clear"
  BY <1>1, HeadIs
<1>3. /\ attempt' = At(i, "idle") /\ astray' = ClearedAstray(io[1])
      /\ \/ /\ Mounted(i) /\ stack' = <<>> /\ io' = Overtaken(Tail(io), Screens)
            /\ hook' = [j \in Screens |-> [NoHook EXCEPT !.kind = hook[j].kind]]
         \/ /\ ~Mounted(i) /\ io' = Tail(io) /\ UNCHANGED <<stack, hook>>
  BY <1>1, <1>2 DEF EndClear
<1>4. attempt[i].stage \in {"clearing", "settling"}
  BY <1>2 DEF OneIsAwaited
<1>7. /\ attempt' \in [Screens -> AttemptRows] /\ attempt'[i].stage = "idle"
      /\ attempt'[i].draft = attempt[i].draft
      /\ \A j \in Screens : j # i => attempt'[j] = attempt[j]
  BY <1>2, <1>3, AtIs DEF Stages
<1> QED
  BY <1>1, <1>2, <1>3, <1>4, <1>7

LEMMA BlankHooks ==
  ASSUME IntakeShape, NEW hooks,
         hooks = [j \in Screens |-> [NoHook EXCEPT !.kind = hook[j].kind]]
  PROVE  /\ hooks \in [Screens -> HookRows]
         /\ \A j \in Screens : /\ hooks[j].kind = hook[j].kind /\ hooks[j].draft = EmptyDraft
                               /\ ~hooks[j].ready
<1>1. \A j \in Screens : hook[j].kind \in {"edit", "review"}
  BY DEF IntakeShape, HookRows
<1> QED
  BY <1>1, EmptyIsDraft DEF NoHook, HookRows

LEMMA ClearedOrders ==
  ASSUME IntakeShape, IntakeOrder, NEW i \in Screens, Cleared(i),
         UNCHANGED <<stack, opened, hook, wire, requests, drafts>>
  PROVE  IntakeShape' /\ IntakeOrder'
<1> USE DEF IntakeOrder
<1>2. /\ io # <<>> /\ io[1].op = "clear" /\ io[1].by = i /\ io' = Tail(io)
      /\ stored' \in {stored, EmptyDraft} /\ attempt' \in [Screens -> AttemptRows]
      /\ attempt'[i].stage \in {"idle", "checking"}
      /\ attempt[i].stage \in {"clearing", "settling"}
      /\ \A j \in Screens : j # i => attempt'[j] = attempt[j]
  BY DEF Cleared
<1>3. 1 \in DOMAIN io /\ Shorter(io', io, 1, {})
  BY <1>2, HeadIs
<1>4. IntakeShape'
  BY <1>2, <1>3, EmptyIsDraft DEF IntakeShape, AttemptRows, Shorter
<1>6. QueueOrder'
  <2>1. Awaited(1) /\ attempt'[i].stage \notin {"noting", "saving"} /\ (Busy(i)' => Busy(i))
    BY <1>2, <1>3 DEF Awaited, OneIsAwaited, Busy
  <2>2. UNCHANGED <<stack, opened>> /\ QueueOrder
    BY DEF QueueOrder
  <2> QED
    BY <1>2, <1>3, <1>4, <2>1, <2>2, PopOrders
<1>7. HeardPosts'
  BY <1>2 DEF HeardPosts, IntakeShape
<1> QED
  BY <1>4, <1>6, <1>7 DEF QueueOrder

LEMMA ClosedIs ==
  ASSUME IntakeShape, io # <<>>, NEW ops, ops = Overtaken(Tail(io), Screens)
  PROVE  Shorter(ops, io, 1, Screens)
<1>1. Shorter(Tail(io), io, 1, {}) /\ io \in Seq(Operations)
  BY HeadIs DEF IntakeShape
<1>2. Tail(io) \in Seq(Operations) /\ 1 \in {0, 1}
  BY <1>1 DEF Shorter
<1>3. Shorter(ops, Tail(io), 0, Screens)
  BY <1>2, OvertakenIs
<1>4. Shorter(ops, io, 1, {} \union Screens)
  BY <1>1, <1>2, <1>3, CarriedOn
<1>5. {} \union Screens = Screens
  OBVIOUS
<1> QED
  BY <1>4, <1>5

LEMMA EndClearOrders ==
  ASSUME IntakeShape, IntakeOrder, EndClear
  PROVE  IntakeShape' /\ IntakeOrder'
<1> USE DEF IntakeOrder
<1>1. PICK i : i = io[1].by
  OBVIOUS
<1>2. /\ io # <<>> /\ io[1].op = "clear" /\ stored' = EmptyDraft
      /\ i \in Screens /\ attempt[i].stage \in {"clearing", "settling"}
      /\ attempt' \in [Screens -> AttemptRows] /\ attempt'[i].stage = "idle"
      /\ attempt'[i].draft = attempt[i].draft
      /\ \A j \in Screens : j # i => attempt'[j] = attempt[j]
      /\ astray' = ClearedAstray(io[1])
      /\ \/ /\ Mounted(i) /\ stack' = <<>> /\ io' = Overtaken(Tail(io), Screens)
            /\ hook' = [j \in Screens |-> [NoHook EXCEPT !.kind = hook[j].kind]]
         \/ /\ ~Mounted(i) /\ io' = Tail(io) /\ UNCHANGED <<stack, hook>>
      /\ UNCHANGED <<opened, wire, requests, drafts>>
  BY <1>1, EndClearIs
<1>3. CASE ~Mounted(i)
  <2>1. Cleared(i) /\ UNCHANGED <<stack, opened, hook, wire, requests, drafts>>
    BY <1>1, <1>2, <1>3 DEF Cleared
  <2> QED
    BY <1>2, <2>1, ClearedOrders
<1>4. CASE Mounted(i)
  <2>1. /\ stack' = <<>> /\ io' = Overtaken(Tail(io), Screens)
        /\ hook' = [j \in Screens |-> [NoHook EXCEPT !.kind = hook[j].kind]]
    BY <1>2, <1>4
  <2>2. hook' \in [Screens -> HookRows]
    BY <2>1, BlankHooks
  <2>3. Shorter(io', io, 1, Screens)
    BY <1>2, <2>1, ClosedIs
  <2>4. IntakeShape'
    BY <1>2, <2>1, <2>2, <2>3, EmptyIsDraft DEF IntakeShape, AttemptRows, Shorter
  <2>5. StackGrows' /\ OnlyFrontWorks' /\ LoadsOfTheFront' /\ WritesComeFirst'
    <3>1. \A k \in Screens : Busy(k)' => Busy(k)
      BY <1>2 DEF Busy
    <3>2. \A n \in DOMAIN io : Wanted(n) => io[n].by \in Screens
      BY OperationsAre
    <3>3. 1 \in {0, 1} /\ UNCHANGED opened
      BY <1>2
    <3> QED
      BY <2>1, <2>3, <2>4, <3>1, <3>2, <3>3, ClosedKeepsOrder
  <2>6. OneIsAwaited'
    <3>1. NothingBegun(1) /\ io' \in Seq(Operations) /\ 1 \in {0, 1}
      BY <2>3, ShorterBegins DEF Shorter
    <3>2. \A n \in DOMAIN io : n <= 1 => n = 1
      BY DEF IntakeShape
    <3>3. 1 \in DOMAIN io /\ Awaited(1)
      BY <1>2, HeadIs DEF Awaited, OneIsAwaited
    <3>4. ASSUME NEW n \in DOMAIN io, n > 1, Awaited(n)
          PROVE  io[n].by # i
      <4>1. io[n].by = io[1].by => n = 1
        BY <3>3, <3>4 DEF OneIsAwaited
      <4> QED
        BY <1>1, <3>4, <4>1
    <3> QED
      BY <1>1, <1>2, <3>1, <3>2, <3>4, AwaitedKeeps
  <2>7. HeardPosts'
    BY <1>2 DEF HeardPosts, IntakeShape
  <2> QED
    BY <2>4, <2>5, <2>6, <2>7
<1> QED
  BY <1>3, <1>4

LEMMA KillIs ==
  ASSUME IntakeShape, OneIsAwaited, Kill
  PROVE  /\ io' = <<>> /\ stack' = <<>>
         /\ hook' = [j \in Screens |-> [NoHook EXCEPT !.kind = hook[j].kind]]
         /\ \/ UNCHANGED <<stored, astray>>
            \/ io # <<>> /\ Saving(1) /\ stored' = io[1].draft /\ UNCHANGED astray
            \/ /\ io # <<>> /\ io[1].op = "clear" /\ stored' \in {stored, EmptyDraft}
               /\ astray' = ClearedAstray(io[1])
         /\ attempt' \in [Screens -> AttemptRows]
         /\ \A j \in Screens : attempt'[j].stage = "idle" /\ attempt'[j].draft = attempt[j].draft
         /\ wire' \subseteq [by: Screens, draft: IntakeDrafts, heard: BOOLEAN]
         /\ \A p \in wire' : ~p.heard /\ \E q \in wire : p.draft = q.draft
         /\ \A p, q \in wire' : (\A a, b \in wire : a.draft = p.draft /\ b.draft = q.draft => a = b)
                                  => p = q
         /\ UNCHANGED <<opened, requests, drafts>>
<1>1. /\ io' = <<>> /\ stack' = <<>>
      /\ hook' = [j \in Screens |-> [NoHook EXCEPT !.kind = hook[j].kind]]
      /\ attempt' = [i \in Screens |-> [attempt[i] EXCEPT !.stage = "idle"]]
      /\ wire' = {Unheard(post) : post \in wire}
      /\ UNCHANGED <<opened, requests, drafts>>
  BY DEF Kill
<1>2. \/ UNCHANGED <<stored, astray>>
      \/ io # <<>> /\ Saving(1) /\ stored' = io[1].draft /\ UNCHANGED astray
      \/ /\ io # <<>> /\ io[1].op = "clear" /\ stored' \in {stored, EmptyDraft}
         /\ astray' = ClearedAstray(io[1])
  <2>1. CASE io # <<>> /\ Head(io).op # "load"
    <3>1. Interrupted(io[1]) /\ io[1].op \in {"save", "clear"} /\ 1 \in DOMAIN io
      BY <2>1, HeadIs, OperationsAre DEF Kill
    <3>2. io[1].op = "clear" => io[1].draft = EmptyDraft
      BY <3>1 DEF OneIsAwaited
    <3> QED
      BY <2>1, <3>1, <3>2 DEF Interrupted, ClearedAstray, Saving
  <2>2. CASE ~(io # <<>> /\ Head(io).op # "load")
    BY <2>2 DEF Kill
  <2> QED
    BY <2>1, <2>2
<1>3. \A p \in wire : /\ Unheard(p) \in [by: Screens, draft: IntakeDrafts, heard: BOOLEAN]
                      /\ ~Unheard(p).heard /\ Unheard(p).draft = p.draft
  BY DEF Unheard, IntakeShape
<1>4. \A p \in wire' : \E q \in wire : p = Unheard(q)
  BY <1>1
<1>5. /\ attempt' \in [Screens -> AttemptRows]
      /\ \A j \in Screens : attempt'[j].stage = "idle" /\ attempt'[j].draft = attempt[j].draft
  BY <1>1 DEF IntakeShape, AttemptRows, Stages
<1>6. ASSUME NEW p \in wire', NEW q \in wire',
             \A a, b \in wire : a.draft = p.draft /\ b.draft = q.draft => a = b
      PROVE  p = q
  <2>1. PICK a \in wire : p = Unheard(a)
    BY <1>4
  <2>2. PICK b \in wire : q = Unheard(b)
    BY <1>4
  <2>3. a = b
    BY <1>3, <1>6, <2>1, <2>2
  <2> QED
    BY <2>1, <2>2, <2>3
<1>7. /\ wire' \subseteq [by: Screens, draft: IntakeDrafts, heard: BOOLEAN]
      /\ \A p \in wire' : ~p.heard /\ \E q \in wire : p.draft = q.draft
  BY <1>3, <1>4
<1> QED
  BY <1>1, <1>2, <1>5, <1>6, <1>7

LEMMA KillOrders ==
  ASSUME IntakeShape, IntakeOrder, Kill
  PROVE  IntakeShape' /\ IntakeOrder'
<1> USE DEF IntakeOrder
<1>1. /\ io' = <<>> /\ stack' = <<>>
      /\ hook' = [j \in Screens |-> [NoHook EXCEPT !.kind = hook[j].kind]]
      /\ \/ UNCHANGED <<stored, astray>>
         \/ io # <<>> /\ Saving(1) /\ stored' = io[1].draft /\ UNCHANGED astray
         \/ /\ io # <<>> /\ io[1].op = "clear" /\ stored' \in {stored, EmptyDraft}
            /\ astray' = ClearedAstray(io[1])
      /\ attempt' \in [Screens -> AttemptRows]
      /\ \A j \in Screens : attempt'[j].stage = "idle"
      /\ wire' \subseteq [by: Screens, draft: IntakeDrafts, heard: BOOLEAN]
      /\ \A p \in wire' : ~p.heard
      /\ UNCHANGED <<opened, requests, drafts>>
  BY KillIs
<1>2. hook' \in [Screens -> HookRows]
  BY <1>1, BlankHooks
<1>3. stored' \in IntakeDrafts
  BY <1>1, EmptyIsDraft, HeadIs DEF IntakeShape
<1>4. IntakeShape'
  BY <1>1, <1>2, <1>3 DEF IntakeShape, AttemptRows
<1>5. \A j : ~Mounted(j)' /\ ~InFront(j)'
  BY <1>1 DEF Mounted, InFront, ToSet
<1>6. DOMAIN io' = {} /\ DOMAIN stack' = {}
  BY <1>1
<1>7. StackGrows' /\ OnlyFrontWorks' /\ LoadsOfTheFront' /\ WritesComeFirst'
  BY <1>1, <1>5, <1>6 DEF StackGrows, OnlyFrontWorks, LoadsOfTheFront, WritesComeFirst, Busy
<1>8. OneIsAwaited' /\ HeardPosts'
  BY <1>1, <1>6 DEF OneIsAwaited, HeardPosts
<1> QED
  BY <1>4, <1>7, <1>8

-----------------------------------------------------------------------------
\* A step that begins no write.

\* Screen k has read what is stored, and nothing that is still written.
JustRead(k, s) ==
  /\ stored' = stored /\ hook'[k].draft = stored /\ ~hook'[k].error
  /\ \A n \in DOMAIN io : n > s => ~Saving(n)

\* No write is begun, and those after the first s operations stay.
NoSaveBegun(s) ==
  /\ \A n \in DOMAIN io' : io'[n].op = "save" =>
       /\ n + s \in DOMAIN io /\ Saving(n + s)
       /\ io'[n].draft = io[n + s].draft /\ io'[n].by = io[n + s].by
       /\ io'[n].wakes = io[n + s].wakes
  /\ \A n \in DOMAIN io : n > s /\ Saving(n) =>
       \E m \in DOMAIN io' : m + s = n /\ io'[m].op = "save" /\ io'[m].draft = io[n].draft

LEMMA BegunIsNoSave ==
  ASSUME NEW s \in {0, 1}, NothingBegun(s)
  PROVE  NoSaveBegun(s)
<1>1. ASSUME NEW n \in DOMAIN io', io'[n].op = "save"
      PROVE  /\ n + s \in DOMAIN io /\ Saving(n + s)
             /\ io'[n].draft = io[n + s].draft /\ io'[n].by = io[n + s].by
             /\ io'[n].wakes = io[n + s].wakes
  BY <1>1 DEF NothingBegun, Saving
<1>2. ASSUME NEW n \in DOMAIN io, n > s, Saving(n)
      PROVE  \E m \in DOMAIN io' : m + s = n /\ io'[m].op = "save" /\ io'[m].draft = io[n].draft
  BY <1>2 DEF NothingBegun, Saving
<1> QED
  BY <1>1, <1>2 DEF NoSaveBegun

Settles(s) ==
  /\ NoSaveBegun(s) /\ (s = 1 => 1 \in DOMAIN io)
  /\ \/ stored' = stored
     \/ stored' = EmptyDraft
     \/ s = 1 /\ Saving(1) /\ stored' = io[1].draft
  /\ \A k \in Screens : InFront(k)' /\ hook'[k].ready =>
       /\ InFront(k) /\ hook'[k].kind = hook[k].kind
       /\ (hook[k].ready /\ hook'[k].draft = hook[k].draft) \/ JustRead(k, s)
  /\ \A k \in Screens : InFront(k)' /\ attempt'[k].stage # "idle" =>
       /\ InFront(k) /\ hook'[k].kind = hook[k].kind
       /\ hook'[k].draft = hook[k].draft \/ JustRead(k, s)

\* The writes still to come were to come.
LEMMA SavesAre ==
  ASSUME IntakeShape, IntakeShape', NEW s \in {0, 1}, Settles(s)
  PROVE  /\ \A n \in DOMAIN io' : io'[n].op = "save" =>
              /\ n + s \in DOMAIN io /\ Saving(n + s) /\ n + s > s
              /\ io'[n].draft = io[n + s].draft /\ io'[n].by = io[n + s].by
              /\ io'[n].wakes = io[n + s].wakes
         /\ \A n \in DOMAIN io : n > s /\ Saving(n) =>
              \E m \in DOMAIN io' : m + s = n /\ io'[m].op = "save" /\ io'[m].draft = io[n].draft
         /\ s = 1 => 1 \in DOMAIN io
<1>1. NoSaveBegun(s) /\ (s = 1 => 1 \in DOMAIN io)
  BY DEF Settles
<1>2. \A n \in DOMAIN io' : n + s > s
  BY DEF IntakeShape
<1> QED
  BY <1>1, <1>2 DEF NoSaveBegun

Resting == {"idle", "checking", "clearing", "settling"}

LEMMA OneDraftSettles ==
  ASSUME IntakeShape, IntakeShape', OneDraftIsWritten, NEW s \in {0, 1}, Settles(s),
         \A k \in Screens : InFront(k)' /\ hook'[k].kind = "review" /\ attempt'[k].stage \notin Resting =>
           attempt[k].stage \notin Resting /\ attempt'[k].draft.id = attempt[k].draft.id
  PROVE  OneDraftIsWritten'
<1>1. /\ \A n \in DOMAIN io' : io'[n].op = "save" =>
              n + s \in DOMAIN io /\ Saving(n + s) /\ n + s > s /\ io'[n].draft = io[n + s].draft
      /\ s = 1 => 1 \in DOMAIN io
  BY SavesAre
<1>2. \/ stored' = stored
      \/ stored'.id = 0
      \/ s = 1 /\ Saving(1) /\ 1 \in DOMAIN io /\ stored' = io[1].draft
  BY <1>1, EmptyIsDraft DEF Settles
<1>3. ASSUME NEW m \in DOMAIN io', NEW n \in DOMAIN io', io'[m].op = "save", io'[n].op = "save"
      PROVE  Same(io'[m].draft.id, io'[n].draft.id)
  BY <1>1, <1>3 DEF OneDraftIsWritten
<1>4. ASSUME NEW n \in DOMAIN io', io'[n].op = "save"
      PROVE  Same(io'[n].draft.id, stored'.id)
  <2>1. n + s \in DOMAIN io /\ Saving(n + s) /\ io'[n].draft = io[n + s].draft
    BY <1>1, <1>4
  <2> QED
    BY <1>2, <2>1 DEF OneDraftIsWritten, Same
<1>5. ASSUME NEW k \in Screens, InFront(k)', hook'[k].ready
      PROVE  /\ OfDraft(stored'.id, hook'[k].draft.id)
             /\ \A n \in DOMAIN io' : io'[n].op = "save" => OfDraft(io'[n].draft.id, hook'[k].draft.id)
  <2>1. /\ InFront(k)
        /\ (hook[k].ready /\ hook'[k].draft = hook[k].draft) \/ JustRead(k, s)
    BY <1>5 DEF Settles
  <2>2. CASE hook[k].ready /\ hook'[k].draft = hook[k].draft
    BY <1>1, <1>2, <2>1, <2>2 DEF OneDraftIsWritten, OfDraft
  <2>3. CASE JustRead(k, s)
    BY <1>1, <2>3 DEF JustRead, OfDraft
  <2> QED
    BY <2>1, <2>2, <2>3
<1>6. ASSUME NEW k \in Screens, InFront(k)', hook'[k].kind = "review", attempt'[k].stage \notin Resting
      PROVE  /\ OfDraft(stored'.id, attempt'[k].draft.id)
             /\ OfDraft(hook'[k].draft.id, attempt'[k].draft.id)
             /\ \A n \in DOMAIN io' : io'[n].op = "save" => OfDraft(io'[n].draft.id, attempt'[k].draft.id)
  <2>1. /\ InFront(k) /\ hook[k].kind = "review"
        /\ hook'[k].draft = hook[k].draft \/ hook'[k].draft = stored
    BY <1>6 DEF Settles, JustRead, Resting
  <2>2. attempt[k].stage \notin Resting /\ attempt'[k].draft.id = attempt[k].draft.id
    BY <1>6
  <2>3. /\ OfDraft(stored.id, attempt[k].draft.id)
        /\ OfDraft(hook[k].draft.id, attempt[k].draft.id)
        /\ \A n \in DOMAIN io : Saving(n) => OfDraft(io[n].draft.id, attempt[k].draft.id)
    BY <2>1, <2>2 DEF OneDraftIsWritten, Resting
  <2> QED
    BY <1>1, <1>2, <2>1, <2>2, <2>3 DEF OfDraft
<1> QED
  BY <1>3, <1>4, <1>5, <1>6 DEF OneDraftIsWritten, Saving, Resting

\* A screen in front that can be used has no read to come.
NoReadBegun(s) ==
  \A n \in DOMAIN io' : io'[n].op = "load" =>
    /\ n + s \in DOMAIN io /\ io[n + s].op = "load" /\ io'[n].by = io[n + s].by
    /\ io'[n].wakes => io[n + s].wakes

LEMMA ReadsKeep ==
  ASSUME IntakeShape, IntakeShape', LateReads, NEW s \in {0, 1}, NoReadBegun(s),
         \A k \in Screens : InFront(k)' /\ hook'[k].ready =>
           \/ InFront(k) /\ hook[k].ready
           \/ \A n \in DOMAIN io' : io'[n].op = "load" => io'[n].by # k
  PROVE  LateReads'
<1>1. ASSUME NEW n \in DOMAIN io', io'[n].op = "load", NEW k \in Screens, k = io'[n].by, InFront(k)'
      PROVE  ~hook'[k].ready
  BY <1>1 DEF LateReads, NoReadBegun
<1>2. \A n \in DOMAIN io' : io'[n].by \in Screens /\ n \in Nat
  <2>1. \A n \in DOMAIN io' : io'[n] \in Operations /\ n \in Nat
    BY DEF IntakeShape
  <2> QED
    BY <2>1 DEF Operations
<1>3. ASSUME NEW m \in DOMAIN io', NEW n \in DOMAIN io', m < n, io'[m].op = "load", io'[m].wakes,
             io'[n].op = "load"
      PROVE  io'[n].by # io'[m].by
  <2>1. /\ m + s \in DOMAIN io /\ Wanted(m + s) /\ io'[m].by = io[m + s].by
        /\ n + s \in DOMAIN io /\ io[n + s].op = "load" /\ io'[n].by = io[n + s].by
    BY <1>3 DEF NoReadBegun, Wanted
  <2>2. m + s < n + s
    BY <1>2, <1>3
  <2> QED
    BY <2>1, <2>2 DEF LateReads
<1>5. \A n \in DOMAIN io' : (io'[n].op = "load" /\ stack' # <<>> /\ Last(stack') = io'[n].by) =>
        ~hook'[io'[n].by].ready
  <2> SUFFICES ASSUME NEW n \in DOMAIN io', io'[n].op = "load", stack' # <<>>, Last(stack') = io'[n].by
               PROVE  ~hook'[io'[n].by].ready
    OBVIOUS
  <2>1. PICK k \in Screens : k = io'[n].by
    BY <1>2
  <2>2. InFront(k)'
    BY <2>1 DEF InFront
  <2> QED
    BY <1>1, <2>1, <2>2
<1> QED
  BY <1>3, <1>5 DEF LateReads, Wanted, InFront

LEMMA ReadsBegin ==
  ASSUME IntakeShape, IntakeShape', LateReads, NEW s \in {0, 1}, NEW i \in Screens, NEW S, i \in S,
         Longer(io', io, s, S, Reading(i)), ~hook'[i].ready, \A k : InFront(k)' => k = i
  PROVE  LateReads'
<1>1. /\ Reading(i).op = "load" /\ Reading(i).by = i
  BY DEF Reading
<1>2. \A n \in DOMAIN io' :
        \/ /\ n < Len(io') /\ n + s \in DOMAIN io /\ io'[n].op = io[n + s].op /\ io'[n].by = io[n + s].by
           /\ io'[n].wakes => io[n + s].wakes
           /\ io'[n].op = "load" /\ io'[n].by = i => ~io'[n].wakes
        \/ n = Len(io') /\ io'[n].op = "load" /\ io'[n].by = i
  BY <1>1 DEF Longer, Carries
<1>3. \A n \in DOMAIN io' : n \in Nat /\ n <= Len(io')
  BY DEF IntakeShape
<1>4. Len(io') \in Nat
  BY DEF IntakeShape
<1>5. ASSUME NEW m \in DOMAIN io', NEW n \in DOMAIN io', m < n, io'[m].op = "load", io'[m].wakes,
             io'[n].op = "load"
      PROVE  io'[n].by # io'[m].by
  <2>1. /\ m < Len(io') /\ m + s \in DOMAIN io /\ Wanted(m + s) /\ io'[m].by = io[m + s].by
        /\ io'[m].by # i
    BY <1>2, <1>3, <1>4, <1>5 DEF Wanted
  <2>2. CASE n = Len(io') /\ io'[n].by = i
    BY <2>1, <2>2
  <2>3. CASE n + s \in DOMAIN io /\ io'[n].op = io[n + s].op /\ io'[n].by = io[n + s].by
    <3>1. m + s < n + s
      BY <1>3, <1>5
    <3> QED
      BY <1>5, <2>1, <2>3, <3>1 DEF LateReads
  <2> QED
    BY <1>2, <2>2, <2>3
<1>6. \A n \in DOMAIN io' : (io'[n].op = "load" /\ stack' # <<>> /\ Last(stack') = io'[n].by) =>
        ~hook'[io'[n].by].ready
  <2>1. \A k : stack' # <<>> /\ Last(stack') = k => k = i
    BY DEF InFront
  <2> QED
    BY <2>1
<1> QED
  BY <1>5, <1>6 DEF LateReads, Wanted, InFront

\* What there is of drafts was there before, or is d.
Drafted(d) ==
  /\ drafts <= drafts' /\ d.id <= drafts' /\ Empties(d)
  /\ \/ stored' \in {stored, d, EmptyDraft}
     \/ \E n \in DOMAIN io : stored' = io[n].draft
  /\ \A n \in DOMAIN io' : \/ io'[n].draft \in {d, EmptyDraft}
                           \/ \E m \in DOMAIN io : io'[n].draft = io[m].draft
  /\ \A i \in Screens : hook'[i].draft \in {d, EmptyDraft, stored, hook[i].draft}
  /\ \A i \in Screens : attempt'[i].draft \in {d, attempt[i].draft, hook[i].draft}
  /\ \A p \in wire' : \/ Locked(p.draft) /\ p.draft = d
                      \/ \E q \in wire : p.draft = q.draft
                      \/ \E i \in Screens : Locked(p.draft) /\ p.draft = attempt[i].draft
  /\ \/ requests' = requests
     \/ \E post \in wire : requests' = Append(requests, Requesting(post))

LEMMA ElementIs ==
  ASSUME NEW S, NEW s \in Seq(S), NEW q \in DOMAIN s
  PROVE  s[q] \in S
OBVIOUS

LEMMA IdsKeep ==
  ASSUME IntakeShape, IntakeShape', DraftsAreFilled, IdsAreCounted, NEW d \in IntakeDrafts, Drafted(d)
  PROVE  DraftsAreFilled' /\ IdsAreCounted'
<1>1. /\ drafts <= drafts' /\ drafts \in Nat /\ drafts' \in Nat /\ d.id <= drafts' /\ Empties(d)
      /\ Empties(EmptyDraft) /\ EmptyDraft.id <= drafts'
  BY EmptyIsDraft DEF Drafted, IntakeShape, Empties
<1>2. ASSUME NEW x \in IntakeDrafts, x.id <= drafts, Empties(x)
      PROVE  x.id <= drafts' /\ Empties(x)
  BY <1>1, <1>2 DEF IntakeDrafts
<1>3. stored'.id <= drafts' /\ Empties(stored')
  <2>1. CASE stored' \in {d, EmptyDraft}
    BY <1>1, <2>1
  <2>2. CASE stored' = stored
    BY <1>2, <2>2 DEF IdsAreCounted, DraftsAreFilled, IntakeShape
  <2>3. CASE \E n \in DOMAIN io : stored' = io[n].draft
    BY <1>2, <2>3, OperationsAre DEF IdsAreCounted, DraftsAreFilled
  <2> QED
    BY <2>1, <2>2, <2>3 DEF Drafted
<1>4. ASSUME NEW n \in DOMAIN io'
      PROVE  io'[n].draft.id <= drafts' /\ Empties(io'[n].draft)
  <2>1. CASE io'[n].draft \in {d, EmptyDraft}
    BY <1>1, <2>1
  <2>2. CASE \E m \in DOMAIN io : io'[n].draft = io[m].draft
    BY <1>2, <2>2, OperationsAre DEF IdsAreCounted, DraftsAreFilled
  <2> QED
    BY <2>1, <2>2 DEF Drafted
<1>5. ASSUME NEW i \in Screens
      PROVE  hook'[i].draft.id <= drafts' /\ Empties(hook'[i].draft)
  <2>1. hook[i].draft \in IntakeDrafts /\ stored \in IntakeDrafts
    BY DEF IntakeShape, HookRows
  <2>2. hook'[i].draft \in {d, EmptyDraft} \/ hook'[i].draft = stored \/ hook'[i].draft = hook[i].draft
    BY DEF Drafted
  <2> QED
    BY <1>1, <1>2, <2>1, <2>2 DEF IdsAreCounted, DraftsAreFilled
<1>6. ASSUME NEW i \in Screens
      PROVE  attempt'[i].draft.id <= drafts' /\ Empties(attempt'[i].draft)
  <2>1. hook[i].draft \in IntakeDrafts /\ attempt[i].draft \in IntakeDrafts
    BY DEF IntakeShape, HookRows
  <2>2. attempt'[i].draft = d \/ attempt'[i].draft = attempt[i].draft \/ attempt'[i].draft = hook[i].draft
    BY DEF Drafted
  <2> QED
    BY <1>1, <1>2, <2>1, <2>2 DEF IdsAreCounted, DraftsAreFilled
<1>7. ASSUME NEW p \in wire'
      PROVE  p.draft.id <= drafts' /\ Empties(p.draft) /\ Locked(p.draft)
  <2>1. CASE Locked(p.draft) /\ p.draft = d
    BY <1>1, <2>1
  <2>2. CASE \E q \in wire : p.draft = q.draft
    BY <1>2, <2>2 DEF IdsAreCounted, DraftsAreFilled, IntakeShape
  <2>3. CASE \E i \in Screens : Locked(p.draft) /\ p.draft = attempt[i].draft
    BY <1>2, <2>3 DEF IdsAreCounted, DraftsAreFilled, IntakeShape
  <2> QED
    BY <2>1, <2>2, <2>3 DEF Drafted
<1>8. ASSUME NEW r \in DOMAIN requests'
      PROVE  requests'[r].draft <= drafts' /\ requests'[r].draft # 0
  <2>1. \A q \in DOMAIN requests : requests[q].draft <= drafts' /\ requests[q].draft # 0
    <3>1. \A q \in DOMAIN requests : requests[q].draft \in Nat
      <4>1. requests \in Seq([draft: Nat, text: IntakeTexts])
        BY DEF IntakeShape
      <4>2. ASSUME NEW q \in DOMAIN requests
            PROVE  requests[q].draft \in Nat
        <5>1. requests[q] \in [draft: Nat, text: IntakeTexts]
          BY <4>1, ElementIs
        <5> QED
          BY <5>1
      <4> QED
        BY <4>2
    <3> QED
      BY <1>1, <3>1 DEF IdsAreCounted, DraftsAreFilled
  <2>2. CASE requests' = requests
    BY <2>1, <2>2
  <2>3. CASE \E post \in wire : requests' = Append(requests, Requesting(post))
    <3>1. PICK post \in wire : requests' = Append(requests, Requesting(post))
      BY <2>3
    <3>2. \/ r \in DOMAIN requests /\ requests'[r] = requests[r]
          \/ requests'[r].draft = post.draft.id
      BY <3>1, RequestIs
    <3>3. post.draft.id <= drafts' /\ post.draft.id # 0
      <4>1. post.draft \in IntakeDrafts
        BY DEF IntakeShape
      <4>2. Locked(post.draft) /\ Empties(post.draft) /\ post.draft.id <= drafts
        BY DEF DraftsAreFilled, IdsAreCounted
      <4> QED
        BY <1>2, <4>1, <4>2, EmptyIsDraft DEF Empties
    <3> QED
      BY <2>1, <3>2, <3>3
  <2> QED
    BY <2>2, <2>3 DEF Drafted
<1> QED
  BY <1>3, <1>4, <1>5, <1>6, <1>7, <1>8 DEF DraftsAreFilled, IdsAreCounted

-----------------------------------------------------------------------------
Submits(j, d) == attempt[j].stage = "saving" /\ attempt[j].draft.id = d

LEMMA SubmitterWrites ==
  ASSUME IntakeShape, OneIsAwaited, ReviewsSubmit, NEW j \in Screens, NEW d, Submits(j, d)
  PROVE  \E n \in DOMAIN io : /\ Saving(n) /\ io[n].wakes /\ io[n].by = j /\ io[n].draft = attempt[j].draft
                              /\ Locked(io[n].draft)
  BY DEF OneIsAwaited, ReviewsSubmit, Submits

LEMMA WriterSubmits ==
  ASSUME IntakeShape, OneIsAwaited, NEW n \in DOMAIN io, Saving(n), io[n].wakes, NEW d,
         Holds(io[n].by, d)
  PROVE  Submits(io[n].by, d)
  BY DEF OneIsAwaited, Holds, Submits

\* Nothing new is on its way.
LEMMA OnceKeeps ==
  ASSUME NEW d, OnItsWayOnce(d), UNCHANGED requests,
         \A j \in Screens : Holds(j, d)' => Holds(j, d),
         \A p \in wire' : \E q \in wire : p.draft = q.draft,
         \A p, q \in wire' : (\A a, b \in wire : a.draft = p.draft /\ b.draft = q.draft => a = b)
                               => p = q
  PROVE  OnItsWayOnce(d)' /\ (OnItsWay(d)' => OnItsWay(d))
<1>1. Posted(d)' => Posted(d)
  BY DEF Posted
<1>2. Requested(d)' <=> Requested(d)
  BY DEF Requested
<1>3. \A p, q \in wire' : p.draft.id = d /\ q.draft.id = d => p = q
  <2> SUFFICES ASSUME NEW p \in wire', NEW q \in wire', p.draft.id = d, q.draft.id = d
               PROVE  p = q
    OBVIOUS
  <2>1. \A a, b \in wire : a.draft = p.draft /\ b.draft = q.draft => a = b
    BY DEF OnItsWayOnce
  <2> QED
    BY <2>1
<1>4. \A i, j \in Screens : Holds(i, d)' /\ Holds(j, d)' => i = j
  BY DEF OnItsWayOnce
<1>5. \A r, q \in DOMAIN requests' : requests'[r].draft = d /\ requests'[q].draft = d => r = q
  BY DEF OnItsWayOnce
<1>6. \A i \in Screens : Holds(i, d)' => ~Posted(d)' /\ ~Requested(d)'
  BY <1>1, <1>2 DEF OnItsWayOnce
<1>7. Requested(d)' => ~Posted(d)'
  BY <1>1, <1>2 DEF OnItsWayOnce
<1>8. OnItsWay(d)' => OnItsWay(d)
  BY <1>1, <1>2 DEF OnItsWay
<1> QED
  BY <1>3, <1>4, <1>5, <1>6, <1>7, <1>8 DEF OnItsWayOnce

LEMMA LockedSettles ==
  ASSUME IntakeShape, IntakeShape', IntakeOrder, IntakeOrder', ReviewsSubmit, NEW s \in {0, 1},
         Settles(s), NEW d, d # 0, LockedOnItsWay(d),
         \A j \in Screens : Submits(j, d)' => Submits(j, d),
         \/ \A j \in Screens : Submits(j, d)' <=> Submits(j, d)
         \/ \A j \in Screens : ~Submits(j, d)
         \/ /\ s = 1 /\ Saving(1) /\ io[1].wakes /\ Submits(io[1].by, d)
            /\ stored' = io[1].draft,
         \A k \in Screens : Mounted(k)' /\ attempt'[k].stage \in {"noting", "noted"} =>
           attempt[k].stage \in {"noting", "noted"} /\ attempt'[k].draft.id = attempt[k].draft.id
  PROVE  LockedOnItsWay(d)'
<1> USE DEF IntakeOrder
<1>1. /\ \A n \in DOMAIN io' : io'[n].op = "save" =>
              /\ n + s \in DOMAIN io /\ Saving(n + s) /\ n + s > s
              /\ io'[n].draft = io[n + s].draft /\ io'[n].by = io[n + s].by
              /\ io'[n].wakes = io[n + s].wakes
      /\ s = 1 => 1 \in DOMAIN io
  BY SavesAre
<1>2. (\A i \in Screens : ~Submits(i, d)) =>
        /\ stored.id = d => Locked(stored)
        /\ \A n \in DOMAIN io : Saving(n) /\ io[n].draft.id = d => Locked(io[n].draft)
  BY DEF LockedOnItsWay, Holds, Submits
<1>3. ASSUME \A j \in Screens : ~Submits(j, d)'
      PROVE  /\ stored'.id = d => Locked(stored')
             /\ \A n \in DOMAIN io' : io'[n].op = "save" /\ io'[n].draft.id = d => Locked(io'[n].draft)
  <2>1. CASE \A j \in Screens : ~Submits(j, d)
    <3>1. \/ stored' = stored
          \/ stored' = EmptyDraft
          \/ s = 1 /\ Saving(1) /\ stored' = io[1].draft
      BY DEF Settles
    <3>2. stored'.id = d => Locked(stored')
      BY <1>1, <1>2, <2>1, <3>1, EmptyIsDraft
    <3>3. \A n \in DOMAIN io' : io'[n].op = "save" /\ io'[n].draft.id = d => Locked(io'[n].draft)
      BY <1>1, <1>2, <2>1
    <3> QED
      BY <3>2, <3>3
  <2>2. CASE /\ s = 1 /\ Saving(1) /\ io[1].wakes /\ Submits(io[1].by, d)
             /\ stored' = io[1].draft
    <3>1. io[1].by \in Screens /\ 1 \in DOMAIN io
      BY <1>1, <2>2, OperationsAre
    <3>2. Locked(io[1].draft)
      <4>1. attempt[io[1].by].stage = "saving" /\ Locked(attempt[io[1].by].draft)
        BY <2>2, <3>1 DEF Submits, ReviewsSubmit
      <4> QED
        BY <2>2, <3>1, <4>1 DEF OneIsAwaited
    <3>3. Holds(io[1].by, d)
      BY <2>2 DEF Submits, Holds
    <3>4. \A n \in DOMAIN io : 1 < n /\ Saving(n) /\ io[n].draft.id = d => Locked(io[n].draft)
      BY <2>2, <3>1, <3>3 DEF LockedOnItsWay
    <3> QED
      BY <1>1, <2>2, <3>2, <3>4
  <2> QED
    BY <1>3, <2>1, <2>2
<1>4. ASSUME NEW m \in DOMAIN io', NEW n \in DOMAIN io', io'[m].op = "save", io'[m].wakes,
             NEW j \in Screens, j = io'[m].by, Holds(j, d)', m < n, io'[n].op = "save",
             io'[n].draft.id = d
      PROVE  Locked(io'[n].draft)
  <2>1. Submits(j, d)'
    BY <1>4 DEF OneIsAwaited, Holds, Submits, Saving
  <2>2. Holds(j, d)
    BY <2>1 DEF Holds, Submits
  <2>3. m + s < n + s
    BY <1>4 DEF IntakeShape
  <2> QED
    BY <1>1, <1>4, <2>2, <2>3 DEF LockedOnItsWay
<1>5. ASSUME NEW k \in Screens, InFront(k)', hook'[k].ready, hook'[k].draft.id = d
      PROVE  Locked(hook'[k].draft)
  <2>1. /\ InFront(k)
        /\ (hook[k].ready /\ hook'[k].draft = hook[k].draft) \/ JustRead(k, s)
    BY <1>5 DEF Settles
  <2>2. CASE hook[k].ready /\ hook'[k].draft = hook[k].draft
    BY <1>5, <2>1, <2>2 DEF LockedOnItsWay
  <2>3. CASE JustRead(k, s)
    <3>1. stored' = stored /\ hook'[k].draft = stored /\ \A n \in DOMAIN io : n > s => ~Saving(n)
      BY <2>3 DEF JustRead
    <3>2. ASSUME NEW j \in Screens, Submits(j, d)'
          PROVE  FALSE
      <4>1. PICK n \in DOMAIN io' : io'[n].op = "save"
        BY <3>2 DEF OneIsAwaited, Submits, Saving
      <4> QED
        BY <1>1, <3>1, <4>1
    <3> QED
      BY <1>3, <1>5, <3>1, <3>2
  <2> QED
    BY <2>1, <2>2, <2>3
<1>6. ASSUME NEW k \in Screens, Mounted(k)', hook'[k].kind = "review",
             attempt'[k].stage \in {"noting", "noted"}
      PROVE  attempt'[k].draft.id # d
  <2>1. InFront(k)'
    BY <1>6 DEF OnlyFrontWorks, Busy
  <2>2. InFront(k) /\ hook[k].kind = "review"
    BY <1>6, <2>1 DEF Settles
  <2>3. Mounted(k)
    BY <2>2, Fronts
  <2> QED
    BY <1>6, <2>2, <2>3 DEF LockedOnItsWay
<1>7. (\A j \in Screens : ~(Holds(j, d) /\ attempt[j].stage = "saving"))' =>
        \A j \in Screens : ~Submits(j, d)'
  BY DEF Holds, Submits
<1>8. (\A m, n \in DOMAIN io :
         /\ Saving(m) /\ io[m].wakes /\ Holds(io[m].by, d) /\ m < n /\ Saving(n) /\ io[n].draft.id = d =>
            Locked(io[n].draft))'
  <2> SUFFICES ASSUME NEW m \in DOMAIN io', NEW n \in DOMAIN io', Saving(m)', io'[m].wakes,
                      Holds(io[m].by, d)', m < n, Saving(n)', io'[n].draft.id = d
               PROVE  Locked(io'[n].draft)
    OBVIOUS
  <2>1. io'[m] \in Operations
    BY DEF IntakeShape
  <2>2. PICK j \in Screens : j = io'[m].by
    BY <2>1 DEF Operations
  <2>3. Holds(j, d)'
    BY <2>2 DEF Holds
  <2> QED
    BY <1>4, <2>2, <2>3 DEF Saving
<1> QED
  BY <1>3, <1>5, <1>6, <1>7, <1>8 DEF LockedOnItsWay, Saving

-----------------------------------------------------------------------------
\* A step that begins no write, when no screen that was left has interfered.
SettlesDrafts(s) ==
  /\ Settles(s) /\ drafts' = drafts
  /\ \A d : Requested(d) => Requested(d)'
  /\ \/ stored' = stored
     \/ s = 1 /\ Saving(1) /\ stored' = io[1].draft
     \/ s = 1 /\ ~Saving(1) /\ stored' = EmptyDraft /\ (stored.id = 0 \/ Requested(stored.id))
  /\ \A i \in Screens : InChain(i)' /\ Pending(attempt[i].draft)' =>
       \/ InChain(i) /\ attempt'[i].draft.id = attempt[i].draft.id
       \/ stored'.id = attempt'[i].draft.id
  /\ \A i \in Screens :
       InFront(i)' /\ attempt'[i].stage \in {"noting", "noted", "saving", "posting", "refused"} =>
         /\ attempt[i].stage \in {"noting", "noted", "saving", "posting", "refused"}
         /\ attempt'[i].draft.id = attempt[i].draft.id
         /\ attempt[i].stage = "noting" =>
              attempt'[i].stage = "noting" \/ hook'[i].draft = hook[i].draft
  /\ \A p \in wire' : stored'.id = p.draft.id \/ \E q \in wire : p.draft = q.draft
  /\ \A i \in Screens : attempt'[i].stage \in {"created", "clearing", "settling"} =>
       Requested(attempt[i].draft.id)'
  /\ \A k \in Screens : InFront(k)' /\ hook'[k].ready =>
       /\ hook'[k].error => hook'[k].draft.id # 0
       /\ hook[k].ready /\ hook[k].error =>
            hook'[k].error \/ (s = 1 /\ Saving(1) /\ stored' = io[1].draft)
       /\ hook[k].ready /\ s = 1 /\ Saving(1) => stored' = io[1].draft \/ hook'[k].error

\* LatestDraft after a step, said of one id at a time.
LEMMA LatestIs ==
  ASSUME \A x : x = stored'.id /\ x # 0 /\ ~Requested(x)' => x = drafts',
         \A n \in DOMAIN io' : \A x : io'[n].op = "save" /\ x = io'[n].draft.id =>
           x # 0 /\ (~Requested(x)' => x = drafts'),
         \A k \in Screens : \A x :
           InFront(k)' /\ hook'[k].ready /\ x = hook'[k].draft.id /\ x # 0 /\ ~Requested(x)' =>
             /\ x = drafts'
             /\ hook'[k].kind = "review" \/ Locked(hook'[k].draft) => stored'.id = x,
         \A k \in Screens :
           InFront(k)' /\ hook'[k].ready /\ hook'[k].error => hook'[k].draft.id # 0,
         \A i \in Screens : \A x :
           InChain(i)' /\ x = attempt'[i].draft.id /\ x # 0 /\ ~Requested(x)' => stored'.id = x,
         \A i \in Screens : \A x :
           (/\ InFront(i)' /\ attempt'[i].stage \in {"noting", "noted", "saving", "posting", "refused"}
            /\ x = attempt'[i].draft.id /\ x # 0 /\ ~Requested(x)')
             => hook'[i].draft.id = x,
         \A p \in wire' : \A x : x = p.draft.id /\ x # 0 /\ ~Requested(x)' => stored'.id = x,
         \A i \in Screens : \A x :
           attempt'[i].stage \in {"created", "clearing", "settling"} /\ x = attempt'[i].draft.id =>
             Requested(x)'
  PROVE  LatestDraft'
<1>1. (Pending(stored) => stored.id = drafts)'
  BY DEF Pending, Requested
<1>2. (\A n \in DOMAIN io : Saving(n) =>
         io[n].draft.id # 0 /\ (Pending(io[n].draft) => io[n].draft.id = drafts))'
  BY DEF Pending, Requested, Saving
<1>3. (\A k \in Screens : InFront(k) /\ hook[k].ready =>
         /\ Pending(hook[k].draft) => hook[k].draft.id = drafts
         /\ hook[k].error => hook[k].draft.id # 0)'
  BY DEF Pending, Requested
<1>4. (\A k \in Screens :
         InFront(k) /\ hook[k].ready /\ Pending(hook[k].draft)
           /\ (hook[k].kind = "review" \/ Locked(hook[k].draft)) => stored.id = hook[k].draft.id)'
  BY DEF Pending, Requested
<1>5. (\A i \in Screens : InChain(i) /\ Pending(attempt[i].draft) => stored.id = attempt[i].draft.id)'
  BY DEF Pending, Requested
<1>6. (\A i \in Screens :
         InFront(i) /\ attempt[i].stage \in {"noting", "noted", "saving", "posting", "refused"}
           /\ Pending(attempt[i].draft) => hook[i].draft.id = attempt[i].draft.id)'
  BY DEF Pending, Requested
<1>7. (\A post \in wire : Pending(post.draft) => stored.id = post.draft.id)'
  BY DEF Pending, Requested
<1>8. (\A i \in Screens : attempt[i].stage \in {"created", "clearing", "settling"} =>
         Requested(attempt[i].draft.id))'
  BY DEF Requested
<1> QED
  BY <1>1, <1>2, <1>3, <1>4, <1>5, <1>6, <1>7, <1>8 DEF LatestDraft

LEMMA LatestSettles ==
  ASSUME IntakeShape, IntakeShape', OneIsAwaited', OneDraftIsWritten, LatestDraft,
         NEW s \in {0, 1}, SettlesDrafts(s)
  PROVE  LatestDraft'
<1>1. /\ \A n \in DOMAIN io' : io'[n].op = "save" =>
              /\ n + s \in DOMAIN io /\ Saving(n + s) /\ n + s > s
              /\ io'[n].draft = io[n + s].draft
      /\ s = 1 => 1 \in DOMAIN io
  BY SavesAre DEF SettlesDrafts
<1>2. drafts' = drafts /\ \A d : Requested(d) => Requested(d)'
  BY DEF SettlesDrafts
<1>3. \/ stored' = stored
      \/ 1 \in DOMAIN io /\ Saving(1) /\ stored' = io[1].draft
      \/ stored' = EmptyDraft /\ (stored.id = 0 \/ Requested(stored.id))
  BY <1>1 DEF SettlesDrafts
<1>4. \A n \in DOMAIN io : Saving(n) =>
        io[n].draft.id # 0 /\ Same(io[n].draft.id, stored.id)
        /\ (~Requested(io[n].draft.id) => io[n].draft.id = drafts)
  BY DEF LatestDraft, OneDraftIsWritten, Pending
<1>5. ASSUME NEW x, x # 0, ~Requested(x)', stored.id = x
      PROVE  stored'.id = x
  <2>1. ~Requested(x)
    BY <1>2, <1>5
  <2>2. CASE 1 \in DOMAIN io /\ Saving(1) /\ stored' = io[1].draft
    BY <1>4, <1>5, <2>2 DEF Same
  <2> QED
    BY <1>3, <1>5, <2>1, <2>2
<1>6. ASSUME NEW x, x = stored'.id, x # 0, ~Requested(x)'
      PROVE  x = drafts'
  <2>3. ~Requested(x)
    BY <1>2, <1>6
  <2>4. CASE stored' = stored
    BY <1>2, <1>6, <2>3, <2>4 DEF LatestDraft, Pending
  <2>5. CASE 1 \in DOMAIN io /\ Saving(1) /\ stored' = io[1].draft
    BY <1>2, <1>4, <1>6, <2>3, <2>5
  <2>6. CASE stored' = EmptyDraft
    BY <1>6, <2>6, EmptyIsDraft
  <2> QED
    BY <1>3, <2>4, <2>5, <2>6
<1>7. ASSUME NEW n \in DOMAIN io', io'[n].op = "save", NEW x, x = io'[n].draft.id
      PROVE  x # 0 /\ (~Requested(x)' => x = drafts')
  BY <1>1, <1>2, <1>4, <1>7
<1>8. ASSUME NEW k \in Screens, InFront(k)', hook'[k].ready, NEW x, x = hook'[k].draft.id, x # 0,
             ~Requested(x)'
      PROVE  /\ x = drafts'
             /\ hook'[k].kind = "review" \/ Locked(hook'[k].draft) => stored'.id = x
  <2>1. /\ InFront(k) /\ hook'[k].kind = hook[k].kind
        /\ (hook[k].ready /\ hook'[k].draft = hook[k].draft) \/ JustRead(k, s)
    BY <1>8 DEF SettlesDrafts, Settles
  <2>2. CASE hook[k].ready /\ hook'[k].draft = hook[k].draft
    <3>1. Pending(hook[k].draft)
      BY <1>2, <1>8, <2>2 DEF Pending
    <3>2. /\ hook[k].draft.id = drafts
          /\ hook[k].kind = "review" \/ Locked(hook[k].draft) => stored.id = hook[k].draft.id
      BY <2>1, <2>2, <3>1 DEF LatestDraft
    <3> QED
      BY <1>2, <1>5, <1>8, <2>1, <2>2, <3>2
  <2>3. CASE JustRead(k, s)
    BY <1>6, <1>8, <2>3 DEF JustRead
  <2> QED
    BY <2>1, <2>2, <2>3
<1>9. ASSUME NEW k \in Screens, InFront(k)', hook'[k].ready, hook'[k].error
      PROVE  hook'[k].draft.id # 0
  BY <1>9 DEF SettlesDrafts
<1>10. ASSUME NEW i \in Screens, InChain(i)', NEW x, x = attempt'[i].draft.id, x # 0, ~Requested(x)'
       PROVE  stored'.id = x
  <2>1. Pending(attempt[i].draft)'
    BY <1>10 DEF Pending, Requested
  <2>2. CASE InChain(i) /\ attempt'[i].draft.id = attempt[i].draft.id
    <3>1. Pending(attempt[i].draft)
      BY <1>2, <1>10, <2>2 DEF Pending
    <3> QED
      BY <1>5, <1>10, <2>2, <3>1 DEF LatestDraft
  <2>3. CASE stored'.id = attempt'[i].draft.id
    BY <1>10, <2>3
  <2> QED
    BY <1>10, <2>1, <2>2, <2>3 DEF SettlesDrafts
<1>11. ASSUME NEW i \in Screens, NEW x, InFront(i)',
              attempt'[i].stage \in {"noting", "noted", "saving", "posting", "refused"},
              x = attempt'[i].draft.id, x # 0, ~Requested(x)'
       PROVE  hook'[i].draft.id = x
  <2>1. /\ attempt[i].stage \in {"noting", "noted", "saving", "posting", "refused"}
        /\ attempt[i].draft.id = x
        /\ attempt[i].stage = "noting" =>
             attempt'[i].stage = "noting" \/ hook'[i].draft = hook[i].draft
    BY <1>11 DEF SettlesDrafts
  <2>2. InFront(i) /\ (hook'[i].draft = hook[i].draft \/ JustRead(i, s))
    BY <1>11 DEF SettlesDrafts, Settles
  <2>3. Pending(attempt[i].draft)
    BY <1>2, <1>11, <2>1 DEF Pending
  <2>4. CASE hook'[i].draft = hook[i].draft
    BY <2>1, <2>2, <2>3, <2>4 DEF LatestDraft
  <2>5. CASE JustRead(i, s) /\ hook'[i].draft # hook[i].draft
    <3>1. attempt'[i].stage # "noting"
      <4>1. \A n \in DOMAIN io' : io'[n].op # "save"
        BY <1>1, <2>5 DEF JustRead
      <4> QED
        BY <4>1 DEF OneIsAwaited, Saving
    <3>2. CASE InChain(i)
      BY <2>1, <2>3, <2>5, <3>2 DEF LatestDraft, JustRead
    <3>3. CASE attempt[i].stage = "noting"
      BY <2>1, <2>5, <3>1, <3>3
    <3> QED
      BY <2>1, <3>2, <3>3 DEF InChain
  <2> QED
    BY <2>2, <2>4, <2>5
<1>12. ASSUME NEW p \in wire', NEW x, x = p.draft.id, x # 0, ~Requested(x)'
       PROVE  stored'.id = x
  <2>1. CASE stored'.id = p.draft.id
    BY <1>12, <2>1
  <2>2. CASE \E q \in wire : p.draft = q.draft
    <3>1. PICK q \in wire : p.draft = q.draft
      BY <2>2
    <3>2. Pending(q.draft)
      BY <1>2, <1>12, <3>1 DEF Pending
    <3> QED
      BY <1>5, <1>12, <3>1, <3>2 DEF LatestDraft
  <2> QED
    BY <2>1, <2>2 DEF SettlesDrafts
<1>13. \A i \in Screens : \A x :
         attempt'[i].stage \in {"created", "clearing", "settling"} /\ x = attempt'[i].draft.id =>
           Requested(x)'
  BY DEF SettlesDrafts, Requested
<1> QED
  <2>1. /\ \A x : x = stored'.id /\ x # 0 /\ ~Requested(x)' => x = drafts'
        /\ \A n \in DOMAIN io' : \A x : io'[n].op = "save" /\ x = io'[n].draft.id =>
             x # 0 /\ (~Requested(x)' => x = drafts')
    BY <1>6, <1>7
  <2>2. \A k \in Screens : \A x :
           InFront(k)' /\ hook'[k].ready /\ x = hook'[k].draft.id /\ x # 0 /\ ~Requested(x)' =>
             /\ x = drafts'
             /\ hook'[k].kind = "review" \/ Locked(hook'[k].draft) => stored'.id = x
    BY <1>8
  <2>3. /\ \A k \in Screens :
             InFront(k)' /\ hook'[k].ready /\ hook'[k].error => hook'[k].draft.id # 0
        /\ \A i \in Screens : \A x :
             InChain(i)' /\ x = attempt'[i].draft.id /\ x # 0 /\ ~Requested(x)' => stored'.id = x
    BY <1>9, <1>10
  <2>4. \A i \in Screens : \A x :
             (/\ InFront(i)' /\ attempt'[i].stage \in {"noting", "noted", "saving", "posting", "refused"}
              /\ x = attempt'[i].draft.id /\ x # 0 /\ ~Requested(x)')
               => hook'[i].draft.id = x
    <3> SUFFICES ASSUME NEW i \in Screens, NEW x, InFront(i)',
                        attempt'[i].stage \in {"noting", "noted", "saving", "posting", "refused"},
                        x = attempt'[i].draft.id, x # 0, ~Requested(x)'
                 PROVE  hook'[i].draft.id = x
      OBVIOUS
    <3> QED
      BY <1>11
  <2>5. \A p \in wire' : \A x : x = p.draft.id /\ x # 0 /\ ~Requested(x)' => stored'.id = x
    BY <1>12
  <2> HIDE <1>6, <1>7, <1>8, <1>9, <1>10, <1>11, <1>12
  <2> QED
    BY <1>13, <2>1, <2>2, <2>3, <2>4, <2>5, LatestIs

LEMMA FrontSettles ==
  ASSUME IntakeShape, IntakeShape', DraftsAreFilled, FrontIsWritten, NEW s \in {0, 1}, SettlesDrafts(s)
  PROVE  FrontIsWritten'
<1>1. /\ \A n \in DOMAIN io' : io'[n].op = "save" =>
              /\ n + s \in DOMAIN io /\ Saving(n + s) /\ n + s > s
              /\ io'[n].draft = io[n + s].draft
      /\ \A n \in DOMAIN io : n > s /\ Saving(n) =>
           \E m \in DOMAIN io' : m + s = n /\ io'[m].op = "save" /\ io'[m].draft = io[n].draft
      /\ s = 1 => 1 \in DOMAIN io
  BY SavesAre DEF SettlesDrafts
<1>2. \A d : Requested(d) => Requested(d)'
  BY DEF SettlesDrafts
<1>3. \/ stored' = stored
      \/ s = 1 /\ Saving(1) /\ stored' = io[1].draft
      \/ s = 1 /\ ~Saving(1) /\ stored' = EmptyDraft /\ (stored.id = 0 \/ Requested(stored.id))
  BY DEF SettlesDrafts
<1>4. \A n \in DOMAIN io : n \in Nat /\ n >= 1
  BY DEF IntakeShape
<1>5. \A n \in DOMAIN io' : n \in Nat
  BY DEF IntakeShape
<1>6. ASSUME NEW k \in Screens, InFront(k)', hook'[k].ready, NEW x, x = hook'[k].draft
      PROVE  /\ \A n \in DOMAIN io' :
                  io'[n].op = "save" /\ (\A q \in DOMAIN io' : q > n => io'[q].op # "save") =>
                    io'[n].draft = x
             /\ (\A n \in DOMAIN io' : io'[n].op # "save") /\ ~hook'[k].error =>
                  x = stored' \/ Requested(x.id)'
  <2>1. /\ InFront(k)
        /\ (hook[k].ready /\ hook'[k].draft = hook[k].draft) \/ JustRead(k, s)
    BY <1>6 DEF SettlesDrafts, Settles
  <2>2. CASE hook[k].ready /\ hook'[k].draft = hook[k].draft
    <3>1. /\ \A n \in DOMAIN io : Saving(n) /\ (\A q \in DOMAIN io : q > n => ~Saving(q)) =>
               io[n].draft = x
          /\ (\A n \in DOMAIN io : ~Saving(n)) /\ ~hook[k].error => x = stored \/ Requested(x.id)
      BY <1>6, <2>1, <2>2 DEF FrontIsWritten
    <3>2. ASSUME NEW n \in DOMAIN io', io'[n].op = "save", \A q \in DOMAIN io' : q > n => io'[q].op # "save"
          PROVE  io'[n].draft = x
      <4>1. n + s \in DOMAIN io /\ Saving(n + s) /\ io'[n].draft = io[n + s].draft
        BY <1>1, <3>2
      <4>2. ASSUME NEW q \in DOMAIN io, q > n + s
            PROVE  ~Saving(q)
        <5>1. SUFFICES ASSUME Saving(q) PROVE FALSE
          OBVIOUS
        <5>2. q > s
          BY <1>4, <1>5, <4>2
        <5>3. PICK m \in DOMAIN io' : m + s = q /\ io'[m].op = "save"
          BY <1>1, <5>1, <5>2
        <5>4. m > n
          BY <1>4, <1>5, <4>2, <5>3
        <5> QED
          BY <3>2, <5>3, <5>4
      <4> QED
        BY <3>1, <4>1, <4>2
    <3>3. ASSUME \A n \in DOMAIN io' : io'[n].op # "save", ~hook'[k].error
          PROVE  x = stored' \/ Requested(x.id)'
      <4>1. \A n \in DOMAIN io : n > s => ~Saving(n)
        BY <1>1, <3>3
      <4>2. /\ hook[k].error => s = 1 /\ Saving(1) /\ stored' = io[1].draft
            /\ s = 1 /\ Saving(1) => stored' = io[1].draft
        BY <1>6, <2>2, <3>3 DEF SettlesDrafts
      <4>3. CASE s = 1 /\ Saving(1)
        <5>1. 1 \in DOMAIN io /\ \A q \in DOMAIN io : q > 1 => ~Saving(q)
          BY <1>1, <4>1, <4>3
        <5> QED
          BY <3>1, <4>2, <4>3, <5>1
      <4>4. CASE ~(s = 1 /\ Saving(1))
        <5>1. \A n \in DOMAIN io : ~Saving(n)
          BY <1>4, <4>1, <4>4
        <5>2. x = stored \/ Requested(x.id)
          BY <3>1, <4>2, <4>4, <5>1
        <5>3. stored' = stored \/ (stored' = EmptyDraft /\ (stored = EmptyDraft \/ Requested(stored.id)))
          BY <1>3, <4>4 DEF DraftsAreFilled, Empties
        <5> QED
          BY <1>2, <5>2, <5>3
      <4> QED
        BY <4>3, <4>4
    <3> QED
      BY <3>2, <3>3
  <2>3. CASE JustRead(k, s)
    BY <1>1, <1>6, <2>3 DEF JustRead
  <2> QED
    BY <2>1, <2>2, <2>3
<1>7. ASSUME NEW k \in Screens, InFront(k)', hook'[k].ready
      PROVE  /\ (\A n \in DOMAIN io : Saving(n) /\ (\A q \in DOMAIN io : q > n => ~Saving(q)) =>
                   io[n].draft = hook[k].draft)'
             /\ ((\A n \in DOMAIN io : ~Saving(n)) /\ ~hook[k].error =>
                   hook[k].draft = stored \/ Requested(hook[k].draft.id))'
  <2>1. PICK x : x = hook'[k].draft
    OBVIOUS
  <2>2. /\ \A n \in DOMAIN io' :
                io'[n].op = "save" /\ (\A q \in DOMAIN io' : q > n => io'[q].op # "save") =>
                  io'[n].draft = x
        /\ (\A n \in DOMAIN io' : io'[n].op # "save") /\ ~hook'[k].error =>
                x = stored' \/ Requested(x.id)'
    BY <1>6, <1>7, <2>1
  <2> HIDE <1>6
  <2>3. (\A n \in DOMAIN io : Saving(n) /\ (\A q \in DOMAIN io : q > n => ~Saving(q)) =>
           io[n].draft = hook[k].draft)'
    BY <2>1, <2>2 DEF Saving
  <2>4. ((\A n \in DOMAIN io : ~Saving(n)) /\ ~hook[k].error =>
           hook[k].draft = stored \/ Requested(hook[k].draft.id))'
    BY <2>1, <2>2 DEF Saving, Requested
  <2> QED
    BY <2>3, <2>4
<1> QED
  BY <1>7 DEF FrontIsWritten

LEMMA OthersSettle ==
  ASSUME IntakeShape, IntakeShape', OthersAreKnown, NEW s \in {0, 1}, Settles(s), UNCHANGED requests,
         \A i \in Screens : InChain(i)' =>
           \/ KnowsTheOthers(attempt'[i].draft)
           \/ InChain(i) /\ attempt'[i].draft = attempt[i].draft
  PROVE  OthersAreKnown'
<1>1. /\ \A n \in DOMAIN io' : io'[n].op = "save" =>
              n + s \in DOMAIN io /\ Saving(n + s) /\ io'[n].draft = io[n + s].draft
      /\ s = 1 => 1 \in DOMAIN io
  BY SavesAre
<1>2. KnowsTheOthers(EmptyDraft)
  BY EmptyIsDraft DEF KnowsTheOthers
<1>3. KnowsTheOthers(stored')
  BY <1>1, <1>2 DEF Settles, OthersAreKnown
<1>4. \A n \in DOMAIN io' : io'[n].op = "save" => KnowsTheOthers(io'[n].draft)
  BY <1>1 DEF OthersAreKnown
<1>5. \A k \in Screens : InFront(k)' /\ hook'[k].ready => KnowsTheOthers(hook'[k].draft)
  BY DEF Settles, JustRead, OthersAreKnown
<1>6. \A i \in Screens : InChain(i)' => KnowsTheOthers(attempt'[i].draft)
  BY DEF OthersAreKnown
<1> QED
  BY <1>3, <1>4, <1>5, <1>6 DEF OthersAreKnown, KnowsTheOthers, Pending, Requested, Saving

-----------------------------------------------------------------------------
\* Draft d is submitted by whom it was, or its write is done.
SubmitsKeep(s, d) ==
  /\ \A j \in Screens : Submits(j, d)' => Submits(j, d)
  /\ \/ \A j \in Screens : Submits(j, d)' <=> Submits(j, d)
     \/ /\ s = 1 /\ Saving(1) /\ io[1].wakes /\ Submits(io[1].by, d)
        /\ stored' = io[1].draft

\* What a step that begins no write has to keep.
LEMMA SettledKeeps ==
  ASSUME IntakeInvariant, IntakeShape', IntakeOrder', LateReads', ReviewsSubmit',
         NEW s \in {0, 1}, Settles(s), NEW d \in IntakeDrafts, Drafted(d), astray \subseteq astray',
         \A k \in Screens : InFront(k)' /\ hook'[k].kind = "review" /\ attempt'[k].stage \notin Resting =>
           attempt[k].stage \notin Resting /\ attempt'[k].draft.id = attempt[k].draft.id,
         \A k \in Screens : Mounted(k)' /\ attempt'[k].stage \in {"noting", "noted"} =>
           attempt[k].stage \in {"noting", "noted"} /\ attempt'[k].draft.id = attempt[k].draft.id,
         \A e \in Nat \ {0} : e \notin astray' /\ OnItsWayOnce(e) /\ (OnItsWay(e) => LockedOnItsWay(e)) =>
           OnItsWayOnce(e)' /\ (OnItsWay(e)' => OnItsWay(e) /\ SubmitsKeep(s, e)),
         astray' = {} => SettlesDrafts(s) /\ OthersAreKnown'
  PROVE  IntakeInvariant'
<1>1. DraftsAreFilled' /\ IdsAreCounted'
  BY IdsKeep DEF IntakeInvariant
<1>2. OneDraftIsWritten'
  BY OneDraftSettles DEF IntakeInvariant
<1>3. Tokens'
  <2> SUFFICES ASSUME NEW e \in Nat \ {0}, e \notin astray'
               PROVE  OnItsWayOnce(e)' /\ (OnItsWay(e)' => LockedOnItsWay(e)')
    BY DEF Tokens
  <2>1. OnItsWayOnce(e) /\ (OnItsWay(e) => LockedOnItsWay(e))
    BY DEF IntakeInvariant, Tokens
  <2>2. OnItsWayOnce(e)' /\ (OnItsWay(e)' => OnItsWay(e) /\ SubmitsKeep(s, e))
    BY <2>1
  <2>3. ASSUME OnItsWay(e)'
        PROVE  LockedOnItsWay(e)'
    <3>1. LockedOnItsWay(e) /\ SubmitsKeep(s, e)
      BY <2>1, <2>2, <2>3
    <3>2. e # 0
      OBVIOUS
    <3>3. IntakeShape /\ IntakeOrder /\ ReviewsSubmit
      BY DEF IntakeInvariant
    <3>4. /\ \A j \in Screens : Submits(j, e)' => Submits(j, e)
          /\ \/ \A j \in Screens : Submits(j, e)' <=> Submits(j, e)
             \/ \A j \in Screens : ~Submits(j, e)
             \/ /\ s = 1 /\ Saving(1) /\ io[1].wakes /\ Submits(io[1].by, e)
                /\ stored' = io[1].draft
      BY <3>1 DEF SubmitsKeep
    <3> QED
      BY <3>1, <3>2, <3>3, <3>4, LockedSettles
  <2> QED
    BY <2>2, <2>3
<1>4. Undisturbed'
  <2> SUFFICES ASSUME astray' = {}
               PROVE  LatestDraft' /\ OthersAreKnown' /\ FrontIsWritten'
    BY DEF Undisturbed
  <2>1. astray = {}
    OBVIOUS
  <2>2. SettlesDrafts(s) /\ OthersAreKnown'
    OBVIOUS
  <2>3. IntakeShape /\ LatestDraft /\ FrontIsWritten /\ DraftsAreFilled /\ OneDraftIsWritten
    BY <2>1 DEF IntakeInvariant, Undisturbed
  <2>4. LatestDraft'
    BY <2>2, <2>3, LatestSettles DEF IntakeOrder
  <2>5. FrontIsWritten'
    BY <2>2, <2>3, FrontSettles
  <2> QED
    BY <2>2, <2>4, <2>5
<1> QED
  BY <1>1, <1>2, <1>3, <1>4 DEF IntakeInvariant

\* The error of the screen in front tells of its draft and of the last write.
ErrorsSettle(s) ==
  \A k \in Screens : InFront(k)' /\ hook'[k].ready =>
    /\ hook'[k].error => hook'[k].draft.id # 0
    /\ hook[k].ready /\ hook[k].error =>
         hook'[k].error \/ (s = 1 /\ Saving(1) /\ stored' = io[1].draft)
    /\ hook[k].ready /\ s = 1 /\ Saving(1) => stored' = io[1].draft \/ hook'[k].error

ReadsDrafts ==
  /\ \A i \in Screens : hook'[i].draft \in {EmptyDraft, stored, hook[i].draft}
  /\ \A n \in DOMAIN io' : \/ io'[n].draft = EmptyDraft
                           \/ \E m \in DOMAIN io : io'[n].draft = io[m].draft

\* Of every draft that is on its way, that is so for the same reason as before.
LEMMA OnceStays ==
  ASSUME UNCHANGED <<attempt, wire, requests>>, NEW e, OnItsWayOnce(e), NEW s
  PROVE  OnItsWayOnce(e)' /\ (OnItsWay(e)' => OnItsWay(e) /\ SubmitsKeep(s, e))
<1>1. \A j \in Screens : (Holds(j, e)' <=> Holds(j, e)) /\ (Submits(j, e)' <=> Submits(j, e))
  BY DEF Holds, Submits
<1>2. OnItsWayOnce(e)'
  BY DEF OnItsWayOnce, Holds, Posted, Requested
<1>3. OnItsWay(e)' => OnItsWay(e)
  BY DEF OnItsWay, Holds, Posted, Requested
<1> QED
  BY <1>1, <1>2, <1>3 DEF SubmitsKeep

\* A step of the storage, or of the screens, that no button is concerned with.
LEMMA QuietKeeps ==
  ASSUME IntakeInvariant, IntakeShape', IntakeOrder', LateReads', NEW s \in {0, 1}, Settles(s),
         UNCHANGED <<attempt, wire, requests, astray, drafts>>,
         stored' = stored \/ (s = 1 /\ Saving(1) /\ stored' = io[1].draft),
         ReadsDrafts, \A i \in Screens : Busy(i) => hook'[i].kind = hook[i].kind,
         astray = {} => ErrorsSettle(s)
  PROVE  IntakeInvariant'
<1>1. EmptyDraft \in IntakeDrafts /\ Drafted(EmptyDraft)
  <2>1. EmptyDraft \in IntakeDrafts /\ EmptyDraft.id = 0
    BY EmptyIsDraft
  <2>2. drafts <= drafts' /\ EmptyDraft.id <= drafts' /\ Empties(EmptyDraft)
    BY <2>1 DEF Empties, IntakeInvariant, IntakeShape
  <2>3. \/ stored' \in {EmptyDraft, EmptyDraft, EmptyDraft, stored}
        \/ \E n \in DOMAIN io : stored' = io[n].draft
    BY DEF Settles
  <2> QED
    BY <2>1, <2>2, <2>3 DEF Drafted, ReadsDrafts
<1>2. ReviewsSubmit'
  BY DEF ReviewsSubmit, IntakeInvariant, Busy
<1>3. \A e \in Nat \ {0} : e \notin astray' /\ OnItsWayOnce(e) /\ (OnItsWay(e) => LockedOnItsWay(e)) =>
           OnItsWayOnce(e)' /\ (OnItsWay(e)' => OnItsWay(e) /\ SubmitsKeep(s, e))
  BY OnceStays
<1>4. ASSUME astray' = {}
      PROVE  SettlesDrafts(s) /\ OthersAreKnown'
  <2>1. IntakeShape /\ LatestDraft /\ OthersAreKnown /\ ErrorsSettle(s)
    BY <1>4 DEF IntakeInvariant, Undisturbed
  <2>2. \A d : Requested(d) => Requested(d)'
    BY DEF Requested
  <2>3. \A i \in Screens : attempt'[i].stage \in {"created", "clearing", "settling"} =>
          Requested(attempt[i].draft.id)'
    BY <2>1 DEF LatestDraft, Requested
  <2>4. SettlesDrafts(s)
    BY <2>1, <2>2, <2>3 DEF SettlesDrafts, ErrorsSettle, InChain
  <2>5. OthersAreKnown'
    BY <2>1, OthersSettle DEF InChain
  <2> QED
    BY <2>4, <2>5
<1> QED
  <2>1. /\ \A k \in Screens : InFront(k)' /\ hook'[k].kind = "review" /\ attempt'[k].stage \notin Resting =>
             attempt[k].stage \notin Resting /\ attempt'[k].draft.id = attempt[k].draft.id
        /\ \A k \in Screens : Mounted(k)' /\ attempt'[k].stage \in {"noting", "noted"} =>
             attempt[k].stage \in {"noting", "noted"} /\ attempt'[k].draft.id = attempt[k].draft.id
        /\ astray \subseteq astray'
    OBVIOUS
  <2> QED
    BY <1>1, <1>2, <1>3, <1>4, <2>1, SettledKeeps

LEMMA ShorterReads ==
  ASSUME NEW s \in {0, 1}, NEW S, Shorter(io', io, s, S)
  PROVE  /\ NoReadBegun(s)
         /\ \A n \in DOMAIN io' : \E m \in DOMAIN io : io'[n].draft = io[m].draft
  BY DEF Shorter, Carries, NoReadBegun

LEMMA LongerReads ==
  ASSUME NEW s \in {0, 1}, NEW S, NEW e, Longer(io', io, s, S, e)
  PROVE  \A n \in DOMAIN io' : io'[n].draft = e.draft \/ \E m \in DOMAIN io : io'[n].draft = io[m].draft
  BY DEF Longer, Carries

\* A screen comes to the front, or is entered again.
LEMMA FocusKeeps ==
  ASSUME IntakeInvariant, IntakeShape', IntakeOrder', NEW i \in Screens, NEW S, i \in S,
         Longer(io', io, 0, S, Reading(i)), \A k : InFront(k)' => k = i, ~hook'[i].ready,
         UNCHANGED <<stored, attempt, wire, requests, astray, drafts>>,
         \A j \in Screens : hook'[j].draft \in {EmptyDraft, stored, hook[j].draft},
         \A j \in Screens : Busy(j) => hook'[j].kind = hook[j].kind,
         Busy(i) => InFront(i) /\ hook'[i].draft = hook[i].draft
  PROVE  IntakeInvariant'
<1>1. IntakeShape /\ LateReads /\ 0 \in {0, 1}
  BY DEF IntakeInvariant
<1>2. LateReads'
  BY <1>1, ReadsBegin
<1>3. NoSaveBegun(0)
  <2>1. NothingBegun(0)
    BY <1>1, LoadBegins
  <2> QED
    BY <1>1, <2>1, BegunIsNoSave
<1>4. Settles(0)
  <2>1. \A k \in Screens : ~(InFront(k)' /\ hook'[k].ready)
    OBVIOUS
  <2>2. \A k \in Screens : InFront(k)' /\ attempt'[k].stage # "idle" =>
          InFront(k) /\ hook'[k].kind = hook[k].kind /\ hook'[k].draft = hook[k].draft
    BY DEF Busy
  <2> QED
    BY <1>3, <2>1, <2>2 DEF Settles
<1>5. ReadsDrafts
  <2>1. Reading(i).draft = EmptyDraft
    BY DEF Reading
  <2>2. \A n \in DOMAIN io' : io'[n].draft = EmptyDraft \/ \E m \in DOMAIN io : io'[n].draft = io[m].draft
    BY <1>1, <2>1, LongerReads
  <2> QED
    BY <2>2 DEF ReadsDrafts
<1>6. ErrorsSettle(0)
  BY DEF ErrorsSettle
<1> QED
  BY <1>1, <1>2, <1>4, <1>5, <1>6, QuietKeeps

LEMMA OpenKeeps ==
  ASSUME IntakeInvariant, Open
  PROVE  IntakeInvariant'
<1>1. IntakeShape /\ IntakeOrder
  BY DEF IntakeInvariant
<1>2. IntakeShape' /\ IntakeOrder'
  BY <1>1, OpenOrders
<1>3. /\ stack = <<>> /\ Push("edit", io, hook)
      /\ UNCHANGED <<stored, attempt, wire, requests, astray, drafts>>
  BY DEF Open
<1>4. PICK x : x = opened + 1
  OBVIOUS
<1>5. /\ opened' = x /\ x \in Screens /\ stack' # <<>> /\ Last(stack') = x
      /\ Longer(io', io, 0, {x}, Reading(x))
      /\ \A j \in Screens : j # x => hook'[j] = hook[j]
      /\ ~hook'[x].ready /\ hook'[x].draft = EmptyDraft
  <2>1. /\ Shorter(io, io, 0, {}) /\ hook \in [Screens -> HookRows]
        /\ "edit" \in {"edit", "review"} /\ 0 \in {0, 1}
    BY <1>1, SameIs DEF IntakeShape
  <2> QED
    BY <1>1, <1>3, <1>4, <2>1, PushIs
<1>6. ~Busy(x)
  BY <1>1, <1>4, <1>5, ScreensAre DEF IntakeOrder, StackGrows
<1>7. /\ \A k : InFront(k)' => k = x
      /\ \A j \in Screens : hook'[j].draft \in {EmptyDraft, stored, hook[j].draft}
      /\ \A j \in Screens : Busy(j) => hook'[j].kind = hook[j].kind
      /\ x \in {x}
  BY <1>5, <1>6 DEF InFront
<1> QED
  BY <1>2, <1>3, <1>5, <1>6, <1>7, FocusKeeps

LEMMA RefocusKeeps ==
  ASSUME IntakeInvariant, NEW i \in Screens, Refocus(i)
  PROVE  IntakeInvariant'
<1>1. IntakeShape /\ IntakeOrder
  BY DEF IntakeInvariant
<1>2. IntakeShape' /\ IntakeOrder'
  BY <1>1, RefocusOrders
<1>3. /\ InFront(i) /\ io' = Load(io, i) /\ hook' = [hook EXCEPT ![i].ready = FALSE]
      /\ UNCHANGED <<stored, stack, attempt, wire, requests, astray, drafts>>
  BY DEF Refocus, Focused
<1>4. Longer(io', io, 0, {} \union {i}, Reading(i)) /\ i \in {} \union {i}
  <2>1. io \in Seq(Operations)
    BY <1>1 DEF IntakeShape
  <2>2. Shorter(io, io, 0, {})
    BY <2>1, SameIs
  <2>3. Longer(Load(io, i), io, 0, {} \union {i}, Reading(i))
    BY <2>1, <2>2, LoadIs
  <2> QED
    BY <1>3, <2>3
<1>5. /\ ~hook'[i].ready
      /\ \A j \in Screens : hook'[j].draft = hook[j].draft /\ hook'[j].kind = hook[j].kind
  BY <1>1, <1>3 DEF IntakeShape, HookRows
<1>6. \A k : InFront(k)' => k = i
  BY <1>1, <1>3, Fronts DEF InFront
<1>7. /\ \A j \in Screens : hook'[j].draft \in {EmptyDraft, stored, hook[j].draft}
      /\ \A j \in Screens : Busy(j) => hook'[j].kind = hook[j].kind
      /\ Busy(i) => InFront(i) /\ hook'[i].draft = hook[i].draft
  BY <1>3, <1>5
<1> QED
  BY <1>2, <1>3, <1>4, <1>5, <1>6, <1>7, FocusKeeps

LEMMA BackKeeps ==
  ASSUME IntakeInvariant, Back
  PROVE  IntakeInvariant'
<1> DEFINE gone == Last(stack)
           ops == Overtaken(io, {gone})
           hooks == [hook EXCEPT ![gone] = [NoHook EXCEPT !.kind = hook[gone].kind]]
<1>0. PICK i : i = stack[Len(stack) - 1]
  OBVIOUS
<1>1. IntakeShape /\ IntakeOrder
  BY DEF IntakeInvariant
<1>2. IntakeShape' /\ IntakeOrder'
  BY <1>1, BackOrders
<1>3. /\ stack # <<>> /\ stack' = Front(stack)
      /\ UNCHANGED <<stored, opened, attempt, wire, requests, astray, drafts>>
      /\ IF Len(stack) = 1 THEN io' = ops /\ hook' = hooks ELSE Focused(ops, hooks, i)
  BY <1>0 DEF Back
<1>4. /\ gone \in Screens
      /\ ToSet(stack) = ToSet(stack') \union {gone} /\ gone \notin ToSet(stack')
      /\ Len(stack) = 1 => stack' = <<>>
      /\ Len(stack) # 1 => /\ stack' # <<>> /\ Last(stack') = i
                           /\ i \in Screens /\ i \in ToSet(stack')
  BY <1>0, <1>1, <1>3, BackIs DEF IntakeOrder
<1>5. /\ hooks \in [Screens -> HookRows]
      /\ \A j \in Screens : /\ hooks[j].kind = hook[j].kind
                            /\ hooks[j].draft \in {EmptyDraft, hook[j].draft}
                            /\ j # gone => hooks[j] = hook[j]
  <2> DEFINE row == [NoHook EXCEPT !.kind = hook[gone].kind]
  <2>1. hook \in [Screens -> HookRows] /\ hook[gone] \in HookRows
    BY <1>1, <1>4 DEF IntakeShape
  <2>2. row \in HookRows /\ row.kind = hook[gone].kind /\ row.draft = EmptyDraft
    BY <2>1, EmptyIsDraft DEF HookRows, NoHook
  <2> HIDE DEF row
  <2>3. hooks = [hook EXCEPT ![gone] = row]
    BY DEF row
  <2> QED
    BY <1>4, <2>1, <2>2, <2>3
<1> HIDE DEF hooks
<1>6. io \in Seq(Operations) /\ Shorter(ops, io, 0, {gone})
  BY <1>1, OvertakenIs DEF IntakeShape
<1> HIDE DEF ops
<1>7. CASE Len(stack) = 1
  <2>1. Shorter(io', io, 0, {gone}) /\ stack' = <<>> /\ hook' = hooks
    BY <1>3, <1>4, <1>6, <1>7
  <2>2. \A k : ~InFront(k)'
    BY <2>1 DEF InFront
  <2>3. NoReadBegun(0) /\ \A n \in DOMAIN io' : \E m \in DOMAIN io : io'[n].draft = io[m].draft
    BY <2>1, ShorterReads
  <2>4. LateReads'
    BY <1>1, <1>2, <2>2, <2>3, ReadsKeep DEF IntakeInvariant
  <2>5. NoSaveBegun(0)
    <3>1. NothingBegun(0)
      BY <1>1, <2>1, ShorterBegins
    <3> QED
      BY <3>1, BegunIsNoSave
  <2>6. Settles(0)
    BY <1>3, <2>2, <2>5 DEF Settles
  <2>7. ReadsDrafts /\ ErrorsSettle(0)
    BY <1>5, <2>1, <2>2, <2>3 DEF ReadsDrafts, ErrorsSettle
  <2>8. \A j \in Screens : Busy(j) => hook'[j].kind = hook[j].kind
    BY <1>5, <2>1
  <2> QED
    BY <1>2, <1>3, <2>4, <2>6, <2>7, <2>8, QuietKeeps
<1>8. CASE Len(stack) # 1
  <2>1. /\ stack' # <<>> /\ Last(stack') = i /\ i \in Screens /\ i \in ToSet(stack')
        /\ io' = Load(ops, i) /\ hook' = [hooks EXCEPT ![i].ready = FALSE]
    BY <1>3, <1>4, <1>8 DEF Focused
  <2>2. ~hook'[i].ready /\ \A j \in Screens : hook'[j].kind = hooks[j].kind /\ hook'[j].draft = hooks[j].draft
    BY <1>5, <2>1 DEF HookRows
  <2>3. Longer(io', io, 0, {gone} \union {i}, Reading(i)) /\ i \in {gone} \union {i}
    BY <1>6, <2>1, LoadIs
  <2>4. \A k : InFront(k)' => k = i
    BY <2>1 DEF InFront
  <2>5. ~Busy(i)
    <3>1. Mounted(i) /\ ~InFront(i)
      BY <1>4, <2>1 DEF Mounted, InFront
    <3> QED
      BY <1>1, <2>1, <3>1 DEF IntakeOrder, OnlyFrontWorks
  <2>6. /\ \A j \in Screens : hook'[j].draft \in {EmptyDraft, stored, hook[j].draft}
        /\ \A j \in Screens : Busy(j) => hook'[j].kind = hook[j].kind
    BY <1>5, <2>2
  <2> QED
    BY <1>2, <1>3, <2>1, <2>2, <2>3, <2>4, <2>5, <2>6, FocusKeeps
<1> QED
  BY <1>7, <1>8

LEMMA EndLoadKeeps ==
  ASSUME IntakeInvariant, EndLoad
  PROVE  IntakeInvariant'
<1>1. IntakeShape /\ IntakeOrder /\ LateReads
  BY DEF IntakeInvariant
<1>2. IntakeShape' /\ IntakeOrder'
  BY <1>1, EndLoadOrders
<1>3. /\ io # <<>> /\ io[1].op = "load" /\ io' = Tail(io)
      /\ UNCHANGED <<stored, stack, opened, attempt, wire, requests, astray, drafts>>
  BY <1>1, EndLoadIs
<1>4. PICK i \in Screens : i = io[1].by
  BY <1>1, <1>3, HeadIs
<1>5. \/ \A j \in Screens :
              /\ hook'[j].kind = hook[j].kind /\ hook'[j].ready = hook[j].ready
              /\ hook'[j].draft = hook[j].draft
              /\ hook[j].error => hook'[j].error
              /\ hook'[j].error /\ ~hook[j].error => i = j
      \/ /\ Wanted(1) /\ hook'[i].kind = hook[i].kind
         /\ hook'[i].ready /\ ~hook'[i].error
         /\ hook'[i].draft = stored
         /\ \A j \in Screens : j # i => hook'[j] = hook[j]
  BY <1>1, <1>4, EndLoadIs
<1>6. 1 \in DOMAIN io /\ Shorter(io', io, 1, {}) /\ ~Saving(1) /\ 1 \in {0, 1}
  BY <1>1, <1>3, HeadIs DEF Saving
<1>7. NoReadBegun(1) /\ NoSaveBegun(1)
      /\ \A n \in DOMAIN io' : \E m \in DOMAIN io : io'[n].draft = io[m].draft
  BY <1>1, <1>6, ShorterReads, ShorterBegins, BegunIsNoSave
<1>8. \A k \in Screens : InFront(k)' => InFront(k)
  BY <1>3 DEF InFront
<1>9. InFront(i) => ~hook[i].ready
  BY <1>1, <1>3, <1>4, <1>6 DEF LateReads
<1>10. ASSUME Wanted(1), NEW n \in DOMAIN io', io'[n].op = "load"
       PROVE  io'[n].by # i
  <2>1. n + 1 \in DOMAIN io /\ io[n + 1].op = "load" /\ io'[n].by = io[n + 1].by
    BY <1>7, <1>10 DEF NoReadBegun
  <2>2. 1 < n + 1
    BY <1>2 DEF IntakeShape
  <2> QED
    BY <1>1, <1>4, <1>6, <1>10, <2>1, <2>2 DEF LateReads
<1>11. LateReads'
  <2>1. \A k \in Screens : InFront(k)' /\ hook'[k].ready =>
          \/ InFront(k) /\ hook[k].ready
          \/ \A n \in DOMAIN io' : io'[n].op = "load" => io'[n].by # k
    BY <1>5, <1>8, <1>10
  <2> QED
    BY <1>1, <1>2, <1>6, <1>7, <2>1, ReadsKeep
<1>12. ASSUME Wanted(1), InFront(i), hook'[i].draft = stored, ~hook'[i].error
       PROVE  JustRead(i, 1)
  <2>1. \A n \in DOMAIN io : n > 1 => ~Saving(n)
    BY <1>1, <1>4, <1>6, <1>12, NothingBehindRead DEF IntakeOrder
  <2> QED
    BY <1>3, <1>12, <2>1 DEF JustRead
<1>13. Settles(1)
  <2>1. ASSUME NEW k \in Screens, InFront(k)', hook'[k].ready
        PROVE  /\ InFront(k) /\ hook'[k].kind = hook[k].kind
               /\ (hook[k].ready /\ hook'[k].draft = hook[k].draft) \/ JustRead(k, 1)
    BY <1>5, <1>8, <1>12, <2>1
  <2>2. ASSUME NEW k \in Screens, InFront(k)'
        PROVE  /\ InFront(k) /\ hook'[k].kind = hook[k].kind
               /\ hook'[k].draft = hook[k].draft \/ JustRead(k, 1)
    BY <1>5, <1>8, <1>12, <2>2
  <2> QED
    BY <1>3, <1>6, <1>7, <2>1, <2>2 DEF Settles
<1>14. ReadsDrafts
  <2>1. \A j \in Screens : hook'[j].draft \in {EmptyDraft, stored, hook[j].draft}
    BY <1>5
  <2> QED
    BY <1>7, <2>1 DEF ReadsDrafts
<1>15. \A j \in Screens : hook'[j].kind = hook[j].kind
  BY <1>5
<1>16. ASSUME astray = {}
       PROVE  ErrorsSettle(1)
  <2>1. LatestDraft
    BY <1>16 DEF IntakeInvariant, Undisturbed
  <2> SUFFICES ASSUME NEW k \in Screens, InFront(k)', hook'[k].ready
               PROVE  /\ hook'[k].error => hook'[k].draft.id # 0
                      /\ hook[k].ready /\ hook[k].error => hook'[k].error
    BY <1>6 DEF ErrorsSettle
  <2>2. InFront(k)
    BY <1>8
  <2>3. CASE \A j \in Screens :
              /\ hook'[j].kind = hook[j].kind /\ hook'[j].ready = hook[j].ready
              /\ hook'[j].draft = hook[j].draft
              /\ hook[j].error => hook'[j].error
              /\ hook'[j].error /\ ~hook[j].error => i = j
    BY <1>9, <2>1, <2>2, <2>3 DEF LatestDraft
  <2>4. CASE /\ Wanted(1) /\ hook'[i].kind = hook[i].kind
             /\ hook'[i].ready /\ ~hook'[i].error
             /\ hook'[i].draft = stored
             /\ \A j \in Screens : j # i => hook'[j] = hook[j]
    BY <1>9, <2>1, <2>2, <2>4 DEF LatestDraft
  <2> QED
    BY <1>5, <2>3, <2>4
<1> QED
  BY <1>2, <1>3, <1>6, <1>11, <1>13, <1>14, <1>15, <1>16, QuietKeeps

\* The stored draft is kept, written by the head of the queue, or cleared as a request.
StoredSettles(s) ==
  \/ stored' = stored
  \/ s = 1 /\ Saving(1) /\ stored' = io[1].draft
  \/ s = 1 /\ ~Saving(1) /\ stored' = EmptyDraft /\ (stored.id = 0 \/ Requested(stored.id))

\* A button comes to rest, or waits for what submits nothing.
LEMMA RestKeeps ==
  ASSUME IntakeInvariant, IntakeShape', IntakeOrder', LateReads', NEW s \in {0, 1}, Settles(s),
         NEW i \in Screens, \A j \in Screens : j # i => attempt'[j] = attempt[j],
         attempt'[i].draft = attempt[i].draft, attempt'[i].stage \in Resting,
         attempt'[i].stage # "idle" => Locked(attempt[i].draft),
         UNCHANGED <<requests, drafts>>, astray \subseteq astray', ReadsDrafts,
         \A j \in Screens : Busy(j) => hook'[j].kind = hook[j].kind,
         \A p \in wire' : \E q \in wire : p.draft = q.draft,
         \A p, q \in wire' : (\A a, b \in wire : a.draft = p.draft /\ b.draft = q.draft => a = b)
                               => p = q,
         astray' = {} => /\ StoredSettles(s) /\ ErrorsSettle(s)
                         /\ attempt'[i].stage \in {"clearing", "settling"} => Requested(attempt[i].draft.id)
                         /\ attempt'[i].stage = "checking" => InChain(i) \/ Requested(attempt[i].draft.id)
  PROVE  IntakeInvariant'
<1>1. EmptyDraft \in IntakeDrafts /\ Drafted(EmptyDraft)
  <2>1. EmptyDraft \in IntakeDrafts /\ EmptyDraft.id = 0
    BY EmptyIsDraft
  <2>2. drafts <= drafts' /\ EmptyDraft.id <= drafts' /\ Empties(EmptyDraft)
    BY <2>1 DEF Empties, IntakeInvariant, IntakeShape
  <2>3. \/ stored' \in {stored, EmptyDraft, EmptyDraft}
        \/ \E n \in DOMAIN io : stored' = io[n].draft
    BY DEF Settles
  <2>4. \A j \in Screens : attempt'[j].draft \in {EmptyDraft, attempt[j].draft, hook[j].draft}
    OBVIOUS
  <2> QED
    BY <2>1, <2>2, <2>3, <2>4 DEF Drafted, ReadsDrafts
<1>2. ReviewsSubmit'
  <2>1. ReviewsSubmit
    BY DEF IntakeInvariant
  <2>2. ASSUME NEW j \in Screens, j # i
        PROVE  /\ attempt'[j].stage \in {"noting", "noted"} =>
                    ~Locked(attempt'[j].draft) /\ Complete(attempt'[j].draft)
               /\ attempt'[j].stage \in {"saving", "posting", "created", "refused", "clearing",
                                        "settling", "checking"} =>
                    Locked(attempt'[j].draft)
               /\ attempt'[j].stage \in {"noted", "saving", "posting", "created", "refused", "undoing"} =>
                    hook'[j].kind = "review"
    BY <2>1, <2>2 DEF ReviewsSubmit, Busy
  <2>3. /\ attempt'[i].stage \in {"noting", "noted"} =>
             ~Locked(attempt'[i].draft) /\ Complete(attempt'[i].draft)
        /\ attempt'[i].stage \in {"saving", "posting", "created", "refused", "clearing",
                                 "settling", "checking"} =>
             Locked(attempt'[i].draft)
        /\ attempt'[i].stage \in {"noted", "saving", "posting", "created", "refused", "undoing"} =>
             hook'[i].kind = "review"
    BY DEF Resting
  <2> QED
    BY <2>2, <2>3 DEF ReviewsSubmit
<1>3. \A j \in Screens : attempt'[j] = attempt[j] \/ (j = i /\ attempt'[j].stage \in Resting)
  OBVIOUS
<1>4. ASSUME NEW e \in Nat \ {0}, e \notin astray', OnItsWayOnce(e)
      PROVE  OnItsWayOnce(e)' /\ (OnItsWay(e)' => OnItsWay(e) /\ SubmitsKeep(s, e))
  <2>1. \A j \in Screens : Holds(j, e)' => Holds(j, e) /\ j # i
    BY <1>3 DEF Holds, Resting
  <2>2. OnItsWayOnce(e)' /\ (OnItsWay(e)' => OnItsWay(e))
    BY <1>4, <2>1, OnceKeeps
  <2>3. CASE Submits(i, e)
    <3>1. Holds(i, e)
      BY <2>3 DEF Holds, Submits
    <3>2. ~Posted(e)'
      BY <1>4, <3>1 DEF OnItsWayOnce, Posted
    <3>3. ~Requested(e)'
      BY <1>4, <3>1 DEF OnItsWayOnce, Requested
    <3>4. \A j \in Screens : ~Holds(j, e)'
      BY <1>4, <2>1, <3>1 DEF OnItsWayOnce
    <3> QED
      BY <2>2, <3>2, <3>3, <3>4 DEF OnItsWay
  <2>4. CASE ~Submits(i, e)
    <3>1. \A j \in Screens : Submits(j, e)' <=> Submits(j, e)
      BY <1>3, <2>4 DEF Submits, Resting
    <3> QED
      BY <2>2, <3>1 DEF SubmitsKeep
  <2> QED
    BY <2>3, <2>4
<1>5. ASSUME astray' = {}
      PROVE  SettlesDrafts(s) /\ OthersAreKnown'
  <2>1. astray = {}
    BY <1>5
  <2>2. /\ IntakeShape /\ LatestDraft /\ OthersAreKnown /\ ErrorsSettle(s) /\ StoredSettles(s)
        /\ attempt'[i].stage \in {"clearing", "settling"} => Requested(attempt[i].draft.id)
        /\ attempt'[i].stage = "checking" => InChain(i) \/ Requested(attempt[i].draft.id)
    BY <1>5, <2>1 DEF IntakeInvariant, Undisturbed
  <2>3. \A d : Requested(d) <=> Requested(d)'
    BY DEF Requested
  <2>4. ASSUME NEW j \in Screens, attempt'[j].stage \in {"created", "clearing", "settling"}
        PROVE  Requested(attempt[j].draft.id)'
    <3>1. attempt'[j].draft = attempt[j].draft /\ Requested(attempt[j].draft.id)
      BY <1>3, <2>2, <2>4 DEF LatestDraft, Resting
    <3> QED
      BY <3>1 DEF Requested
  <2>5. ASSUME NEW j \in Screens, InChain(j)'
        PROVE  /\ attempt'[j].draft = attempt[j].draft
               /\ InChain(j) \/ Requested(attempt[j].draft.id)
    BY <1>3, <2>2, <2>5 DEF InChain, Resting
  <2>6. ASSUME NEW j \in Screens, InChain(j)', Pending(attempt[j].draft)'
        PROVE  InChain(j) /\ attempt'[j].draft.id = attempt[j].draft.id
    BY <2>5, <2>6 DEF Pending, Requested
  <2>7. ASSUME NEW j \in Screens,
               attempt'[j].stage \in {"noting", "noted", "saving", "posting", "refused"}
        PROVE  attempt'[j] = attempt[j]
    BY <1>3, <2>7 DEF Resting
  <2>8. SettlesDrafts(s)
    <3>1. \A p \in wire' : stored'.id = p.draft.id \/ \E q \in wire : p.draft = q.draft
      OBVIOUS
    <3> HIDE <1>3, <1>4
    <3> QED
      BY <2>2, <2>3, <2>4, <2>6, <2>7, <3>1 DEF SettlesDrafts, ErrorsSettle, StoredSettles
  <2>9. OthersAreKnown'
    <3>1. \A j \in Screens : InChain(j)' =>
           \/ KnowsTheOthers(attempt'[j].draft)
           \/ InChain(j) /\ attempt'[j].draft = attempt[j].draft
      BY <2>5 DEF KnowsTheOthers, Pending
    <3> QED
      BY <2>2, <3>1, OthersSettle
  <2> QED
    BY <2>8, <2>9
<1>6. \A k \in Screens : InFront(k)' /\ hook'[k].kind = "review" /\ attempt'[k].stage \notin Resting =>
           attempt[k].stage \notin Resting /\ attempt'[k].draft.id = attempt[k].draft.id
  BY <1>3
<1>7. \A k \in Screens : Mounted(k)' /\ attempt'[k].stage \in {"noting", "noted"} =>
           attempt[k].stage \in {"noting", "noted"} /\ attempt'[k].draft.id = attempt[k].draft.id
  BY <1>3 DEF Resting
<1> QED
  BY <1>1, <1>2, <1>4, <1>5, <1>6, <1>7, SettledKeeps

-----------------------------------------------------------------------------
\* Nothing happens at the screens and nothing is written.
LEMMA StandsStill ==
  ASSUME IntakeInvariant, IntakeShape', UNCHANGED <<stored, stack, hook>>,
         io' = io \/ \E j \in Screens : Longer(io', io, 0, {}, Wiping(j))
  PROVE  /\ Settles(0) /\ LateReads' /\ ReadsDrafts /\ StoredSettles(0)
         /\ astray = {} => ErrorsSettle(0)
<1>1. IntakeShape /\ LateReads /\ 0 \in {0, 1}
  BY DEF IntakeInvariant
<1>2. NoSaveBegun(0) /\ NoReadBegun(0)
      /\ \A n \in DOMAIN io' : io'[n].draft = EmptyDraft \/ \E m \in DOMAIN io : io'[n].draft = io[m].draft
  <2>1. CASE io' = io
    <3>1. \A n \in DOMAIN io : n + 0 = n
      BY <1>1 DEF IntakeShape
    <3> QED
      BY <2>1, <3>1 DEF NoSaveBegun, NoReadBegun, Saving
  <2>2. CASE \E j \in Screens : Longer(io', io, 0, {}, Wiping(j))
    <3>1. PICK j \in Screens : Longer(io', io, 0, {}, Wiping(j))
      BY <2>2
    <3>2. PICK e : e = Wiping(j)
      OBVIOUS
    <3>3. e.op = "clear" /\ e.draft = EmptyDraft
      BY <3>2 DEF Wiping
    <3>4. \A n \in DOMAIN io' :
            \/ /\ n + 0 \in DOMAIN io /\ io'[n].op = io[n + 0].op /\ io'[n].by = io[n + 0].by
               /\ io'[n].draft = io[n + 0].draft
               /\ io'[n].wakes => io[n + 0].wakes
               /\ io'[n].op # "load" => io'[n].wakes = io[n + 0].wakes
            \/ io'[n] = e
      BY <3>1, <3>2 DEF Longer, Carries
    <3>5. NoSaveBegun(0)
      <4>1. \A n \in DOMAIN io' : io'[n].op = "save" =>
              /\ n + 0 \in DOMAIN io /\ Saving(n + 0)
              /\ io'[n].draft = io[n + 0].draft /\ io'[n].by = io[n + 0].by
              /\ io'[n].wakes = io[n + 0].wakes
        BY <3>3, <3>4 DEF Saving
      <4>2. \A n \in DOMAIN io : n > 0 /\ Saving(n) =>
              \E m \in DOMAIN io' : m + 0 = n /\ io'[m].op = "save" /\ io'[m].draft = io[n].draft
        BY <3>1 DEF Longer, Carries, Saving
      <4> QED
        BY <4>1, <4>2 DEF NoSaveBegun
    <3>6. NoReadBegun(0)
      BY <3>3, <3>4 DEF NoReadBegun
    <3>7. \A n \in DOMAIN io' : io'[n].draft = EmptyDraft \/ \E m \in DOMAIN io : io'[n].draft = io[m].draft
      BY <3>3, <3>4
    <3> QED
      BY <3>5, <3>6, <3>7
  <2> QED
    BY <2>1, <2>2
<1>3. \A k \in Screens : InFront(k)' <=> InFront(k)
  BY DEF InFront
<1>4. LateReads'
  BY <1>1, <1>2, <1>3, ReadsKeep
<1>5. Settles(0)
  BY <1>2, <1>3 DEF Settles
<1>6. ASSUME astray = {}
      PROVE  ErrorsSettle(0)
  BY <1>3, <1>6 DEF ErrorsSettle, IntakeInvariant, Undisturbed, LatestDraft
<1>7. ReadsDrafts
  BY <1>2 DEF ReadsDrafts
<1> QED
  BY <1>4, <1>5, <1>6, <1>7 DEF StoredSettles

\* A button gives up, or waits for what submits nothing.
LEMMA RestStill ==
  ASSUME IntakeInvariant, IntakeShape', IntakeOrder', UNCHANGED <<stored, stack, hook>>,
         io' = io \/ \E j \in Screens : Longer(io', io, 0, {}, Wiping(j)),
         NEW i \in Screens, NEW stage \in Resting, attempt' = At(i, stage),
         stage # "idle" => Locked(attempt[i].draft),
         UNCHANGED <<requests, astray, drafts>>,
         \A p \in wire' : \E q \in wire : p.draft = q.draft,
         \A p, q \in wire' : (\A a, b \in wire : a.draft = p.draft /\ b.draft = q.draft => a = b)
                               => p = q,
         astray = {} => /\ stage \in {"clearing", "settling"} => Requested(attempt[i].draft.id)
                        /\ stage = "checking" => InChain(i) \/ Requested(attempt[i].draft.id)
  PROVE  IntakeInvariant'
<1>1. /\ Settles(0) /\ LateReads' /\ ReadsDrafts /\ StoredSettles(0)
      /\ astray = {} => ErrorsSettle(0)
  BY StandsStill
<1>2. /\ attempt'[i].stage = stage /\ attempt'[i].draft = attempt[i].draft
      /\ \A j \in Screens : j # i => attempt'[j] = attempt[j]
  BY AtIs DEF IntakeInvariant, Resting, Stages
<1>3. /\ astray' = {} => /\ StoredSettles(0) /\ ErrorsSettle(0)
                         /\ attempt'[i].stage \in {"clearing", "settling"} => Requested(attempt[i].draft.id)
                         /\ attempt'[i].stage = "checking" => InChain(i) \/ Requested(attempt[i].draft.id)
      /\ attempt'[i].stage # "idle" => Locked(attempt[i].draft)
      /\ attempt'[i].stage \in Resting
  BY <1>1, <1>2
<1>4. (\A j \in Screens : Busy(j) => hook'[j].kind = hook[j].kind) /\ astray \subseteq astray' /\ 0 \in {0, 1}
  OBVIOUS
<1> QED
  BY <1>1, <1>2, <1>3, <1>4, RestKeeps

LEMMA WireStays ==
  ASSUME UNCHANGED wire
  PROVE  /\ \A p \in wire' : \E q \in wire : p.draft = q.draft
         /\ \A p, q \in wire' : (\A a, b \in wire : a.draft = p.draft /\ b.draft = q.draft => a = b)
                                  => p = q
  OBVIOUS

LEMMA FailListingKeeps ==
  ASSUME IntakeInvariant, NEW i \in Screens, FailListing(i)
  PROVE  IntakeInvariant'
<1>1. IntakeShape' /\ IntakeOrder'
  BY FailListingOrders DEF IntakeInvariant
<1>2. /\ attempt' = At(i, "idle")
      /\ UNCHANGED <<stored, io, stack, hook, wire, requests, astray, drafts>>
  BY DEF FailListing
<1>3. "idle" \in Resting /\ io' = io
  BY <1>2 DEF Resting
<1> QED
  BY <1>1, <1>2, <1>3, WireStays, RestStill

LEMMA FailCheckKeeps ==
  ASSUME IntakeInvariant, NEW i \in Screens, FailCheck(i)
  PROVE  IntakeInvariant'
<1>1. IntakeShape' /\ IntakeOrder'
  BY CheckOrders DEF IntakeInvariant
<1>2. /\ attempt' = At(i, "idle")
      /\ UNCHANGED <<stored, io, stack, hook, wire, requests, astray, drafts>>
  BY DEF FailCheck
<1>3. "idle" \in Resting /\ io' = io
  BY <1>2 DEF Resting
<1> QED
  BY <1>1, <1>2, <1>3, WireStays, RestStill

LEMMA LosePostKeeps ==
  ASSUME IntakeInvariant, NEW i \in Screens, LosePost(i)
  PROVE  IntakeInvariant'
<1>1. IntakeShape' /\ IntakeOrder' /\ IntakeShape /\ ReviewsSubmit
  BY LosePostOrders DEF IntakeInvariant
<1>2. /\ attempt[i].stage \in {"posting", "created", "refused"} /\ attempt' = At(i, "checking")
      /\ \A p \in wire' : \E q \in wire : p.draft = q.draft
      /\ \A p, q \in wire' : (\A a, b \in wire : a.draft = p.draft /\ b.draft = q.draft => a = b)
                                  => p = q
      /\ UNCHANGED <<stored, io, stack, hook, requests, astray, drafts>>
  BY <1>1, LosePostIs
<1>3. "checking" \in Resting /\ io' = io /\ Locked(attempt[i].draft)
  BY <1>1, <1>2 DEF Resting, ReviewsSubmit
<1>4. astray = {} => InChain(i) \/ Requested(attempt[i].draft.id)
  BY <1>2 DEF IntakeInvariant, Undisturbed, LatestDraft, InChain
<1> QED
  BY <1>1, <1>2, <1>3, <1>4, RestStill

LEMMA ClearingKeeps ==
  ASSUME IntakeInvariant, IntakeShape', IntakeOrder', NEW i \in Screens,
         NEW stage \in {"clearing", "settling"}, Clearing(i, stage), Locked(attempt[i].draft),
         UNCHANGED <<stored, stack, wire, requests, astray, drafts>>,
         astray = {} => Requested(attempt[i].draft.id)
  PROVE  IntakeInvariant'
<1>1. attempt' = At(i, stage) /\ UNCHANGED hook /\ io' = Append(io, Wiping(i))
  BY DEF Clearing, Wiping
<1>2. Longer(io', io, 0, {}, Wiping(i))
  <2>1. io \in Seq(Operations) /\ Shorter(io, io, 0, {}) /\ Wiping(i) \in Operations
    BY SameIs, EmptyIsDraft DEF IntakeInvariant, IntakeShape, Wiping, Operations
  <2>2. Longer(Append(io, Wiping(i)), io, 0, {}, Wiping(i))
    BY <2>1, AppendIs
  <2> QED
    BY <1>1, <2>2
<1>3. stage \in Resting /\ stage # "checking"
  BY DEF Resting
<1> QED
  BY <1>1, <1>2, <1>3, WireStays, RestStill

LEMMA FinishKeeps ==
  ASSUME IntakeInvariant, NEW i \in Screens, Finish(i)
  PROVE  IntakeInvariant'
<1>1. IntakeShape' /\ IntakeOrder'
  BY FinishOrders DEF IntakeInvariant
<1>2. /\ attempt[i].stage = "created" /\ Clearing(i, "clearing")
      /\ UNCHANGED <<stored, stack, wire, requests, astray, drafts>>
  BY DEF Finish
<1>3. Locked(attempt[i].draft) /\ (astray = {} => Requested(attempt[i].draft.id))
  BY <1>2 DEF IntakeInvariant, ReviewsSubmit, Undisturbed, LatestDraft
<1> QED
  BY <1>1, <1>2, <1>3, ClearingKeeps

\* A request that is found is one that is there.
LEMMA FoundIsRequested ==
  ASSUME IntakeInvariant, astray = {}, NEW i \in Screens, attempt[i].stage = "checking",
         Cardinality(Matches(attempt[i].draft)) = 1
  PROVE  Requested(attempt[i].draft.id)
<1> SUFFICES ASSUME ~Requested(attempt[i].draft.id)
             PROVE  FALSE
  OBVIOUS
<1>1. /\ Locked(attempt[i].draft) /\ Empties(attempt[i].draft)
      /\ KnowsTheOthers(attempt[i].draft)
  BY DEF IntakeInvariant, ReviewsSubmit, DraftsAreFilled, Undisturbed, OthersAreKnown, InChain
<1>2. attempt[i].draft.id # 0
  BY <1>1, EmptyIsDraft DEF Empties
<1>3. DOMAIN requests \subseteq attempt[i].draft.submission.existing
  BY <1>1, <1>2 DEF KnowsTheOthers, Pending
<1>4. Matches(attempt[i].draft) = {}
  BY <1>3 DEF Matches
<1> QED
  BY <1>4, FS_EmptySet

LEMMA CheckKeeps ==
  ASSUME IntakeInvariant, NEW i \in Screens, Check(i)
  PROVE  IntakeInvariant'
<1>1. IntakeShape' /\ IntakeOrder'
  BY CheckOrders DEF IntakeInvariant
<1>2. /\ attempt[i].stage = "checking"
      /\ UNCHANGED <<stored, stack, wire, requests, astray, drafts>>
  BY DEF Check
<1>3. CASE Cardinality(Matches(attempt[i].draft)) = 1
  <2>1. Clearing(i, "settling")
    BY <1>3 DEF Check, Reconcile
  <2>2. Locked(attempt[i].draft)
    BY <1>2 DEF IntakeInvariant, ReviewsSubmit
  <2>3. astray = {} => Requested(attempt[i].draft.id)
    BY <1>2, <1>3, FoundIsRequested
  <2> QED
    BY <1>1, <1>2, <2>1, <2>2, <2>3, ClearingKeeps
<1>4. CASE Cardinality(Matches(attempt[i].draft)) # 1
  <2>1. attempt' = At(i, "idle") /\ UNCHANGED <<io, hook>>
    BY <1>4 DEF Check, Reconcile
  <2>2. "idle" \in Resting /\ io' = io
    BY <2>1 DEF Resting
  <2> QED
    BY <1>1, <1>2, <2>1, <2>2, WireStays, RestStill
<1> QED
  BY <1>3, <1>4

LEMMA RejectLeftKeeps ==
  ASSUME IntakeInvariant, NEW i \in Screens, Reject(i), ~Mounted(i)
  PROVE  IntakeInvariant'
<1>1. IntakeShape' /\ IntakeOrder'
  BY RejectOrders DEF IntakeInvariant
<1>2. /\ attempt' = At(i, "idle") /\ UNCHANGED <<io, hook>>
      /\ UNCHANGED <<stored, stack, wire, requests, astray, drafts>>
  BY DEF Reject, Update
<1>3. "idle" \in Resting /\ io' = io
  BY <1>2 DEF Resting
<1> QED
  BY <1>1, <1>2, <1>3, WireStays, RestStill

\* The write at the head ends or fails, and nothing comes to the front.
LEMMA SaveEnds ==
  ASSUME IntakeInvariant, IntakeShape', io # <<>>, Saving(1), io' = Tail(io), NEW i, i = io[1].by,
         stored' \in {stored, io[1].draft}, UNCHANGED stack,
         \A j \in Screens : /\ hook'[j].kind = hook[j].kind /\ hook'[j].ready = hook[j].ready
                            /\ hook'[j].draft = hook[j].draft
                            /\ j # i => hook'[j] = hook[j],
         Mounted(i) => hook'[i].error \/ stored' = io[1].draft
  PROVE  /\ Settles(1) /\ LateReads' /\ ReadsDrafts /\ StoredSettles(1) /\ 1 \in DOMAIN io
         /\ astray = {} => ErrorsSettle(1)
<1>1. IntakeShape /\ LateReads /\ IntakeOrder /\ 1 \in {0, 1}
  BY DEF IntakeInvariant
<1>2. 1 \in DOMAIN io /\ Shorter(io', io, 1, {})
  BY <1>1, HeadIs
<1>3. NoReadBegun(1) /\ NoSaveBegun(1)
      /\ \A n \in DOMAIN io' : \E m \in DOMAIN io : io'[n].draft = io[m].draft
  BY <1>1, <1>2, ShorterReads, ShorterBegins, BegunIsNoSave
<1>4. \A k \in Screens : InFront(k)' <=> InFront(k)
  BY DEF InFront
<1>5. LateReads'
  <2>1. \A k \in Screens : InFront(k)' /\ hook'[k].ready =>
          \/ InFront(k) /\ hook[k].ready
          \/ \A n \in DOMAIN io' : io'[n].op = "load" => io'[n].by # k
    BY <1>4
  <2> QED
    BY <1>1, <1>3, <2>1, ReadsKeep
<1>6. Settles(1)
  BY <1>2, <1>3, <1>4 DEF Settles
<1>7. ReadsDrafts
  BY <1>3 DEF ReadsDrafts
<1>8. StoredSettles(1)
  BY DEF StoredSettles
<1>9. ASSUME astray = {}
      PROVE  ErrorsSettle(1)
  <2> SUFFICES ASSUME NEW k \in Screens, InFront(k)', hook'[k].ready
               PROVE  /\ hook'[k].error => hook'[k].draft.id # 0
                      /\ hook[k].error => hook'[k].error \/ stored' = io[1].draft
                      /\ stored' = io[1].draft \/ hook'[k].error
    BY DEF ErrorsSettle
  <2>1. InFront(k) /\ hook[k].ready
    BY <1>4
  <2>2. io[1].draft.id # 0
    BY <1>2, <1>9 DEF IntakeInvariant, Undisturbed, LatestDraft
  <2>3. OfDraft(io[1].draft.id, hook[k].draft.id)
    BY <1>2, <2>1 DEF IntakeInvariant, OneDraftIsWritten
  <2>4. hook'[k].draft.id # 0
    BY <2>2, <2>3 DEF OfDraft
  <2>5. k = i
    BY <1>1, <1>2, <2>1 DEF IntakeOrder, WritesComeFirst
  <2>6. Mounted(i)
    BY <1>1, <2>1, <2>5, Fronts
  <2> QED
    BY <2>4, <2>5, <2>6
<1> QED
  BY <1>2, <1>5, <1>6, <1>7, <1>8, <1>9

LEMMA FailSaveKeeps ==
  ASSUME IntakeInvariant, FailSave
  PROVE  IntakeInvariant'
<1>1. IntakeShape' /\ IntakeOrder' /\ IntakeShape
  BY FailSaveOrders DEF IntakeInvariant
<1>2. PICK i : i = io[1].by
  OBVIOUS
<1>3. /\ io # <<>> /\ Saving(1) /\ io' = Tail(io) /\ stored' \in {stored, io[1].draft}
      /\ attempt' \in [Screens -> AttemptRows]
      /\ \A j \in Screens : /\ hook'[j].kind = hook[j].kind /\ hook'[j].ready = hook[j].ready
                            /\ hook'[j].draft = hook[j].draft
                            /\ j # i => hook'[j] = hook[j] /\ attempt'[j] = attempt[j]
      /\ Mounted(i) => hook'[i].error
      /\ attempt'[i].draft = attempt[i].draft
      /\ ~io[1].wakes => attempt' = attempt
      /\ io[1].wakes => attempt'[i].stage = "idle"
      /\ UNCHANGED <<stack, wire, requests, astray, drafts>>
  BY <1>1, <1>2, FailSaveIs
<1>4. /\ Settles(1) /\ LateReads' /\ ReadsDrafts /\ StoredSettles(1) /\ 1 \in DOMAIN io
      /\ astray = {} => ErrorsSettle(1)
  BY <1>1, <1>2, <1>3, SaveEnds
<1>5. i \in Screens /\ 1 \in {0, 1}
  BY <1>1, <1>2, <1>3, HeadIs
<1>6. CASE ~io[1].wakes
  <2>1. stored' = stored \/ (1 = 1 /\ Saving(1) /\ stored' = io[1].draft)
    BY <1>3
  <2> QED
    BY <1>1, <1>3, <1>4, <1>5, <1>6, <2>1, QuietKeeps
<1>7. CASE io[1].wakes
  <2>1. attempt'[i].stage = "idle" /\ attempt'[i].stage \in Resting
    BY <1>3, <1>7 DEF Resting
  <2> QED
    BY <1>1, <1>3, <1>4, <1>5, <2>1, WireStays, RestKeeps
<1> QED
  BY <1>3, <1>5, <1>6, <1>7, HeadIs, <1>1

LEMMA ContinueKeeps ==
  ASSUME IntakeInvariant, EndSave, Continuing
  PROVE  IntakeInvariant'
<1>1. IntakeShape' /\ IntakeOrder' /\ IntakeShape /\ IntakeOrder /\ LateReads
  BY ContinueOrders DEF IntakeInvariant
<1>2. PICK i : i = io[1].by
  OBVIOUS
<1>3. PICK x : x = opened + 1
  OBVIOUS
<1>4. /\ io # <<>> /\ Saving(1) /\ stored' = io[1].draft
      /\ i \in Screens /\ attempt[i].stage = "noting" /\ x \in Screens
      /\ stack' # <<>> /\ Last(stack') = x
      /\ Longer(io', io, 1, {x}, Reading(x))
      /\ \A j \in Screens : j # x => /\ hook'[j].kind = hook[j].kind
                                     /\ hook'[j].ready = hook[j].ready
                                     /\ hook'[j].draft = hook[j].draft
      /\ ~hook'[x].ready /\ hook'[x].draft = EmptyDraft
      /\ attempt'[i].stage = "idle" /\ attempt'[i].draft = attempt[i].draft
      /\ \A j \in Screens : j # i => attempt'[j] = attempt[j]
      /\ astray' = IF Mounted(i) THEN astray ELSE astray \union {attempt[i].draft.id}
      /\ UNCHANGED <<wire, requests, drafts>>
  BY <1>1, <1>2, <1>3, ContinueIs
<1>5. ~Busy(x) /\ x # i
  BY <1>1, <1>3, <1>4, ScreensAre DEF IntakeOrder, StackGrows, Busy
<1>6. (\A k : InFront(k)' => k = x) /\ 1 \in {0, 1} /\ x \in {x} /\ 1 \in DOMAIN io
  BY <1>1, <1>4, HeadIs DEF InFront
<1>7. LateReads'
  BY <1>1, <1>4, <1>6, ReadsBegin
<1>8. Settles(1)
  <2>1. NoSaveBegun(1)
    BY <1>1, <1>4, LoadBegins, BegunIsNoSave
  <2>2. \A k \in Screens : InFront(k)' => ~hook'[k].ready /\ attempt'[k].stage = "idle"
    BY <1>4, <1>5, <1>6 DEF Busy
  <2> QED
    BY <1>4, <1>6, <2>1, <2>2 DEF Settles
<1>9. ReadsDrafts
  <2>1. Reading(x).draft = EmptyDraft
    BY DEF Reading
  <2>2. \A n \in DOMAIN io' : io'[n].draft = EmptyDraft \/ \E m \in DOMAIN io : io'[n].draft = io[m].draft
    BY <1>4, <2>1, LongerReads
  <2> QED
    BY <1>4, <2>2 DEF ReadsDrafts
<1>10. StoredSettles(1) /\ ErrorsSettle(1)
  BY <1>4, <1>6 DEF StoredSettles, ErrorsSettle
<1>11. \A j \in Screens : Busy(j) => hook'[j].kind = hook[j].kind
  BY <1>4, <1>5
<1>12. astray \subseteq astray' /\ attempt'[i].stage \in Resting
  BY <1>4 DEF Resting
<1> QED
  BY <1>1, <1>4, <1>6, <1>7, <1>8, <1>9, <1>10, <1>11, <1>12, WireStays, RestKeeps

LEMMA EndSaveKeeps ==
  ASSUME IntakeInvariant, EndSave, ~Continuing
  PROVE  IntakeInvariant'
<1>1. IntakeShape' /\ IntakeOrder' /\ IntakeShape /\ IntakeOrder /\ ReviewsSubmit
  BY EndSaveOrders DEF IntakeInvariant
<1>2. PICK i : i = io[1].by
  OBVIOUS
<1>3. /\ io # <<>> /\ Saving(1) /\ io' = Tail(io) /\ stored' = io[1].draft
      /\ \A j \in Screens : /\ hook'[j].kind = hook[j].kind /\ hook'[j].ready = hook[j].ready
                            /\ hook'[j].draft = hook[j].draft
                            /\ j # i => hook'[j] = hook[j] /\ attempt'[j] = attempt[j]
      /\ attempt'[i].draft = attempt[i].draft
      /\ ~io[1].wakes => attempt' = attempt /\ wire' = wire
      /\ io[1].wakes =>
           /\ attempt[i].stage \in {"noting", "saving", "undoing"}
           /\ attempt[i].stage = "noting" => /\ attempt'[i].stage = "noted" /\ wire' = wire
                                             /\ hook[i].kind = "review"
           /\ attempt[i].stage = "saving" => /\ attempt'[i].stage = "posting"
                                             /\ wire' = wire \union {Post(i, attempt[i].draft)}
           /\ attempt[i].stage = "undoing" => attempt'[i].stage = "idle" /\ wire' = wire
      /\ UNCHANGED <<stack, requests, astray, drafts>>
  BY <1>1, <1>2, EndSaveIs DEF IntakeOrder
<1>4. /\ Settles(1) /\ LateReads' /\ ReadsDrafts /\ StoredSettles(1) /\ 1 \in DOMAIN io
      /\ astray = {} => ErrorsSettle(1)
  BY <1>1, <1>2, <1>3, SaveEnds
<1>5. i \in Screens /\ 1 \in {0, 1}
  BY <1>1, <1>2, <1>3, HeadIs
<1>6. CASE ~io[1].wakes
  <2>1. stored' = stored \/ (1 = 1 /\ Saving(1) /\ stored' = io[1].draft)
    BY <1>3
  <2> QED
    BY <1>1, <1>3, <1>4, <1>5, <1>6, <2>1, QuietKeeps
<1>7. CASE io[1].wakes /\ attempt[i].stage = "undoing"
  <2>1. attempt'[i].stage = "idle" /\ attempt'[i].stage \in Resting /\ wire' = wire
    BY <1>3, <1>7 DEF Resting
  <2> QED
    BY <1>1, <1>3, <1>4, <1>5, <2>1, WireStays, RestKeeps
<1>8. EmptyDraft \in IntakeDrafts /\ EmptyDraft.id = 0 /\ Empties(EmptyDraft)
      /\ drafts <= drafts' /\ EmptyDraft.id <= drafts'
  BY <1>1, <1>3, EmptyIsDraft DEF Empties, IntakeShape
<1>9. io[1].draft = attempt[i].draft \/ ~io[1].wakes \/ attempt[i].stage = "undoing"
  BY <1>1, <1>2, <1>3, <1>4 DEF IntakeOrder, OneIsAwaited
<1>10. CASE io[1].wakes /\ attempt[i].stage = "noting"
  <2>1. attempt'[i].stage = "noted" /\ wire' = wire /\ hook[i].kind = "review"
    BY <1>3, <1>10
  <2>2. Drafted(EmptyDraft)
    <3>1. \/ stored' \in {stored, EmptyDraft, EmptyDraft}
          \/ \E n \in DOMAIN io : stored' = io[n].draft
      BY <1>3, <1>4
    <3>2. \A j \in Screens : attempt'[j].draft \in {EmptyDraft, attempt[j].draft, hook[j].draft}
      BY <1>3
    <3> QED
      BY <1>3, <1>4, <1>8, <2>1, <3>1, <3>2 DEF Drafted, ReadsDrafts
  <2>3. ReviewsSubmit'
    <3>1. ~Locked(attempt[i].draft) /\ Complete(attempt[i].draft)
      BY <1>1, <1>5, <1>10 DEF ReviewsSubmit
    <3> QED
      BY <1>1, <1>3, <2>1, <3>1 DEF ReviewsSubmit
  <2>4. ASSUME NEW e \in Nat \ {0}, OnItsWayOnce(e)
        PROVE  OnItsWayOnce(e)' /\ (OnItsWay(e)' => OnItsWay(e) /\ SubmitsKeep(1, e))
    <3>1. \A j \in Screens : (Holds(j, e)' <=> Holds(j, e)) /\ (Submits(j, e)' <=> Submits(j, e))
      BY <1>3, <1>10, <2>1 DEF Holds, Submits
    <3>2. OnItsWayOnce(e)' /\ (OnItsWay(e)' => OnItsWay(e))
      BY <1>3, <2>1, <2>4, <3>1, WireStays, OnceKeeps
    <3> QED
      BY <3>1, <3>2 DEF SubmitsKeep
  <2>5. ASSUME astray' = {}
        PROVE  SettlesDrafts(1) /\ OthersAreKnown'
    <3>1. /\ LatestDraft /\ OthersAreKnown /\ ErrorsSettle(1) /\ astray = {}
      BY <1>3, <1>4, <2>5 DEF IntakeInvariant, Undisturbed
    <3>2. \A d : Requested(d) <=> Requested(d)'
      BY <1>3 DEF Requested
    <3>3. stored'.id = attempt'[i].draft.id /\ KnowsTheOthers(attempt'[i].draft)
      BY <1>3, <1>4, <1>9, <1>10, <3>1 DEF OthersAreKnown
    <3>4. ASSUME NEW j \in Screens
          PROVE  /\ InChain(j)' => \/ InChain(j) /\ attempt'[j].draft = attempt[j].draft
                                  \/ j = i
                 /\ attempt'[j].stage \in {"created", "clearing", "settling"} =>
                      Requested(attempt[j].draft.id)'
                 /\ attempt'[j].stage \in {"noting", "noted", "saving", "posting", "refused"} =>
                      /\ attempt[j].stage \in {"noting", "noted", "saving", "posting", "refused"}
                      /\ attempt'[j].draft.id = attempt[j].draft.id
      <4>1. CASE j = i
        BY <1>3, <1>10, <2>1, <4>1
      <4>2. CASE j # i
        <5>1. attempt'[j] = attempt[j]
          BY <1>3, <4>2
        <5>2. attempt[j].stage \in {"created", "clearing", "settling"} => Requested(attempt[j].draft.id)
          BY <3>1 DEF LatestDraft
        <5> QED
          BY <1>3, <5>1, <5>2 DEF InChain, Requested
      <4> QED
        BY <4>1, <4>2
    <3>5. SettlesDrafts(1)
      <4>1. \A j \in Screens : InChain(j)' =>
              \/ InChain(j) /\ attempt'[j].draft.id = attempt[j].draft.id
              \/ stored'.id = attempt'[j].draft.id
        BY <3>3, <3>4
      <4>2. \A p \in wire' : stored'.id = p.draft.id \/ \E q \in wire : p.draft = q.draft
        BY <2>1
      <4> QED
        BY <1>3, <1>4, <3>1, <3>2, <3>4, <4>1, <4>2 DEF SettlesDrafts, ErrorsSettle,
           StoredSettles
    <3>6. OthersAreKnown'
      BY <1>1, <1>3, <1>4, <1>5, <3>1, <3>3, <3>4, OthersSettle
    <3> QED
      BY <3>5, <3>6
  <2>6. /\ \A k \in Screens : InFront(k)' /\ hook'[k].kind = "review" /\ attempt'[k].stage \notin Resting =>
             attempt[k].stage \notin Resting /\ attempt'[k].draft.id = attempt[k].draft.id
        /\ \A k \in Screens : Mounted(k)' /\ attempt'[k].stage \in {"noting", "noted"} =>
             attempt[k].stage \in {"noting", "noted"} /\ attempt'[k].draft.id = attempt[k].draft.id
        /\ astray \subseteq astray'
    BY <1>3, <1>10 DEF Resting
  <2> QED
    BY <1>1, <1>4, <1>5, <1>8, <2>2, <2>3, <2>4, <2>5, <2>6, SettledKeeps
<1>11. CASE io[1].wakes /\ attempt[i].stage = "saving"
  <2>0. PICK p : p = Post(i, attempt[i].draft)
    OBVIOUS
  <2>1. /\ attempt'[i].stage = "posting" /\ wire' = wire \union {p}
        /\ p.draft = attempt[i].draft
    BY <1>3, <1>11, <2>0 DEF Post
  <2>2. Locked(attempt[i].draft) /\ hook[i].kind = "review"
    BY <1>1, <1>5, <1>11 DEF ReviewsSubmit
  <2>3. Drafted(EmptyDraft)
    <3>1. \/ stored' \in {stored, EmptyDraft, EmptyDraft}
          \/ \E n \in DOMAIN io : stored' = io[n].draft
      BY <1>3, <1>4
    <3>2. \A j \in Screens : attempt'[j].draft \in {EmptyDraft, attempt[j].draft, hook[j].draft}
      BY <1>3
    <3>3. \A q \in wire' : (\E o \in wire : q.draft = o.draft)
                            \/ \E j \in Screens : Locked(q.draft) /\ q.draft = attempt[j].draft
      BY <1>5, <2>1, <2>2
    <3> QED
      BY <1>3, <1>4, <1>8, <3>1, <3>2, <3>3 DEF Drafted, ReadsDrafts
  <2>4. ReviewsSubmit'
    BY <1>1, <1>3, <2>1, <2>2 DEF ReviewsSubmit
  <2>5. ASSUME NEW e \in Nat \ {0}, OnItsWayOnce(e)
        PROVE  OnItsWayOnce(e)' /\ (OnItsWay(e)' => OnItsWay(e) /\ SubmitsKeep(1, e))
    <3>1. CASE attempt[i].draft.id = e
      <4>1. Holds(i, e) /\ Submits(i, e)
        BY <1>11, <3>1 DEF Holds, Submits
      <4>2. ~Posted(e) /\ ~Requested(e) /\ \A j \in Screens : Holds(j, e) => j = i
        BY <1>5, <2>5, <4>1 DEF OnItsWayOnce
      <4>3. \A j \in Screens : ~Holds(j, e)' /\ ~Submits(j, e)'
        BY <1>3, <2>1, <4>2 DEF Holds, Submits
      <4>4. \A q, o \in wire' : q.draft.id = e /\ o.draft.id = e => q = o
        BY <2>1, <4>2 DEF Posted
      <4>5. ~Requested(e)'
        BY <1>3, <4>2 DEF Requested
      <4>6. \A r, q \in DOMAIN requests' : requests'[r].draft = e /\ requests'[q].draft = e => r = q
        BY <1>3, <4>5 DEF Requested
      <4>7. OnItsWayOnce(e)'
        BY <4>3, <4>4, <4>5, <4>6 DEF OnItsWayOnce
      <4>8. OnItsWay(e)
        BY <1>5, <4>1 DEF OnItsWay
      <4>9. SubmitsKeep(1, e)
        BY <1>2, <1>3, <1>11, <4>1, <4>3 DEF SubmitsKeep
      <4> QED
        BY <4>7, <4>8, <4>9
    <3>2. CASE attempt[i].draft.id # e
      <4>1. \A j \in Screens : (Holds(j, e)' <=> Holds(j, e)) /\ (Submits(j, e)' <=> Submits(j, e))
        BY <1>3, <3>2 DEF Holds, Submits
      <4>2. \A q \in wire' : q.draft.id = e => q \in wire
        BY <2>1, <3>2
      <4>3. (Posted(e)' <=> Posted(e)) /\ (Requested(e)' <=> Requested(e))
        BY <1>3, <2>1, <4>2 DEF Posted, Requested
      <4>4. \A q, o \in wire' : q.draft.id = e /\ o.draft.id = e => q = o
        BY <2>5, <4>2 DEF OnItsWayOnce
      <4>5. \A r, q \in DOMAIN requests' : requests'[r].draft = e /\ requests'[q].draft = e => r = q
        BY <1>3, <2>5 DEF OnItsWayOnce
      <4>6. OnItsWayOnce(e)'
        BY <2>5, <4>1, <4>3, <4>4, <4>5 DEF OnItsWayOnce
      <4>7. OnItsWay(e)' => OnItsWay(e)
        BY <4>1, <4>3 DEF OnItsWay
      <4> QED
        BY <4>1, <4>6, <4>7 DEF SubmitsKeep
    <3> QED
      BY <3>1, <3>2
  <2>6. ASSUME astray' = {}
        PROVE  SettlesDrafts(1) /\ OthersAreKnown'
    <3>1. /\ LatestDraft /\ OthersAreKnown /\ ErrorsSettle(1) /\ astray = {}
      BY <1>3, <1>4, <2>6 DEF IntakeInvariant, Undisturbed
    <3>2. \A d : Requested(d) <=> Requested(d)'
      BY <1>3 DEF Requested
    <3>4. ASSUME NEW j \in Screens
          PROVE  /\ InChain(j)' => InChain(j) /\ attempt'[j].draft = attempt[j].draft
                 /\ attempt'[j].stage \in {"created", "clearing", "settling"} =>
                      Requested(attempt[j].draft.id)'
                 /\ attempt'[j].stage \in {"noting", "noted", "saving", "posting", "refused"} =>
                      /\ attempt[j].stage \in {"noting", "noted", "saving", "posting", "refused"}
                      /\ attempt'[j].draft.id = attempt[j].draft.id
      <4>1. CASE j = i
        BY <1>3, <1>11, <2>1, <4>1 DEF InChain
      <4>2. CASE j # i
        <5>1. attempt'[j] = attempt[j]
          BY <1>3, <4>2
        <5>2. attempt[j].stage \in {"created", "clearing", "settling"} => Requested(attempt[j].draft.id)
          BY <3>1 DEF LatestDraft
        <5> QED
          BY <1>3, <5>1, <5>2 DEF InChain, Requested
      <4> QED
        BY <4>1, <4>2
    <3>5. SettlesDrafts(1)
      <4>2. \A q \in wire' : stored'.id = q.draft.id \/ \E o \in wire : q.draft = o.draft
        BY <1>3, <1>9, <1>11, <2>1
      <4> QED
        BY <1>3, <1>4, <3>1, <3>2, <3>4, <4>2 DEF SettlesDrafts, ErrorsSettle, StoredSettles
    <3>6. OthersAreKnown'
      BY <1>1, <1>3, <1>4, <1>5, <3>1, <3>4, OthersSettle
    <3> QED
      BY <3>5, <3>6
  <2>7. /\ \A k \in Screens : InFront(k)' /\ hook'[k].kind = "review" /\ attempt'[k].stage \notin Resting =>
             attempt[k].stage \notin Resting /\ attempt'[k].draft.id = attempt[k].draft.id
        /\ \A k \in Screens : Mounted(k)' /\ attempt'[k].stage \in {"noting", "noted"} =>
             attempt[k].stage \in {"noting", "noted"} /\ attempt'[k].draft.id = attempt[k].draft.id
        /\ astray \subseteq astray'
    BY <1>3, <1>11, <2>1 DEF Resting
  <2> QED
    BY <1>1, <1>4, <1>5, <1>8, <2>3, <2>4, <2>5, <2>6, <2>7, SettledKeeps
<1> QED
  BY <1>3, <1>6, <1>7, <1>10, <1>11

LEMMA ClearedAstrayIs ==
  ASSUME NEW x
  PROVE  /\ astray \subseteq ClearedAstray(x)
         /\ x.op = "clear" /\ ClearedAstray(x) = {} => stored.id \in {0, attempt[x.by].draft.id}
  BY DEF ClearedAstray

\* What is cleared while no screen that was left interferes is no draft, or a request.
LEMMA ClearedIsRequested ==
  ASSUME IntakeInvariant, io # <<>>, io[1].op = "clear", ClearedAstray(io[1]) = {}
  PROVE  stored.id = 0 \/ Requested(stored.id)
<1>1. astray = {} /\ stored.id \in {0, attempt[io[1].by].draft.id}
  BY ClearedAstrayIs
<1>2. 1 \in DOMAIN io /\ io[1].by \in Screens
  BY HeadIs DEF IntakeInvariant
<1>3. attempt[io[1].by].stage \in {"clearing", "settling"}
  BY <1>2 DEF IntakeInvariant, IntakeOrder, OneIsAwaited
<1>4. Requested(attempt[io[1].by].draft.id)
  BY <1>1, <1>2, <1>3 DEF IntakeInvariant, Undisturbed, LatestDraft
<1> QED
  BY <1>1, <1>4

\* A clearing is over; the screens stay, or all are gone.
LEMMA ClearedKeeps ==
  ASSUME IntakeInvariant, IntakeShape', IntakeOrder', NEW i \in Screens,
         io # <<>>, io[1].op = "clear", io[1].by = i, NEW S, Shorter(io', io, 1, S),
         stored' \in {stored, EmptyDraft}, astray' = ClearedAstray(io[1]),
         attempt'[i].stage \in {"idle", "checking"}, attempt'[i].draft = attempt[i].draft,
         \A j \in Screens : j # i => attempt'[j] = attempt[j],
         attempt[i].stage \in {"clearing", "settling"},
         UNCHANGED <<wire, requests, drafts>>,
         \/ UNCHANGED <<stack, hook>>
         \/ /\ stack' = <<>>
            /\ \A j \in Screens : hook'[j].draft = EmptyDraft /\ hook'[j].kind = hook[j].kind
  PROVE  IntakeInvariant'
<1>1. IntakeShape /\ LateReads /\ 1 \in {0, 1} /\ 1 \in DOMAIN io /\ ~Saving(1)
  BY HeadIs DEF IntakeInvariant, Saving
<1>2. NoReadBegun(1) /\ NoSaveBegun(1)
      /\ \A n \in DOMAIN io' : \E m \in DOMAIN io : io'[n].draft = io[m].draft
  BY <1>1, ShorterReads, ShorterBegins, BegunIsNoSave
<1>3. \A k \in Screens : InFront(k)' => InFront(k) /\ hook'[k] = hook[k]
  BY DEF InFront
<1>4. LateReads'
  <2>1. \A k \in Screens : InFront(k)' /\ hook'[k].ready =>
          \/ InFront(k) /\ hook[k].ready
          \/ \A n \in DOMAIN io' : io'[n].op = "load" => io'[n].by # k
    BY <1>3
  <2> QED
    BY <1>1, <1>2, <2>1, ReadsKeep
<1>5. Settles(1)
  BY <1>1, <1>2, <1>3 DEF Settles
<1>6. ReadsDrafts
  BY <1>2 DEF ReadsDrafts
<1>7. attempt'[i].stage \in Resting /\ Locked(attempt[i].draft)
  BY DEF IntakeInvariant, ReviewsSubmit, Resting
<1>8. astray \subseteq astray'
  BY ClearedAstrayIs
<1>9. ASSUME astray' = {}
      PROVE  /\ StoredSettles(1) /\ ErrorsSettle(1) /\ Requested(attempt[i].draft.id)
             /\ attempt'[i].stage \notin {"clearing", "settling"}
  <2>1. LatestDraft
    BY <1>8, <1>9 DEF IntakeInvariant, Undisturbed
  <2>2. stored.id = 0 \/ Requested(stored.id)
    BY <1>9, ClearedIsRequested
  <2>3. ErrorsSettle(1)
    BY <1>1, <1>3, <2>1 DEF ErrorsSettle, LatestDraft
  <2>4. Requested(attempt[i].draft.id)
    BY <2>1 DEF LatestDraft
  <2> QED
    BY <1>1, <2>2, <2>3, <2>4 DEF StoredSettles
<1>10. \A j \in Screens : Busy(j) => hook'[j].kind = hook[j].kind
  OBVIOUS
<1> QED
  BY <1>1, <1>4, <1>5, <1>6, <1>7, <1>8, <1>9, <1>10, WireStays, RestKeeps

LEMMA FailClearKeeps ==
  ASSUME IntakeInvariant, FailClear
  PROVE  IntakeInvariant'
<1>1. IntakeShape /\ IntakeOrder /\ OneIsAwaited /\ io # <<>>
  BY DEF IntakeInvariant, IntakeOrder, FailClear
<1>2. PICK i \in Screens : i = io[1].by
  BY <1>1, HeadIs
<1>3. /\ Cleared(i) /\ UNCHANGED <<stack, opened, hook, wire, requests, drafts>>
  BY <1>1, <1>2, FailClearIs
<1>4. IntakeShape' /\ IntakeOrder'
  BY <1>1, <1>3, ClearedOrders
<1>5. Shorter(io', io, 1, {})
  BY <1>1, <1>3, HeadIs DEF Cleared
<1> QED
  BY <1>3, <1>4, <1>5, ClearedKeeps DEF Cleared

LEMMA EndClearKeeps ==
  ASSUME IntakeInvariant, EndClear
  PROVE  IntakeInvariant'
<1>1. IntakeShape /\ IntakeOrder /\ OneIsAwaited /\ io # <<>>
  BY DEF IntakeInvariant, IntakeOrder, EndClear
<1>2. PICK i \in Screens : i = io[1].by
  BY <1>1, HeadIs
<1>3. /\ io[1].op = "clear" /\ stored' = EmptyDraft
      /\ attempt[i].stage \in {"clearing", "settling"}
      /\ attempt'[i].stage = "idle" /\ attempt'[i].draft = attempt[i].draft
      /\ \A j \in Screens : j # i => attempt'[j] = attempt[j]
      /\ astray' = ClearedAstray(io[1])
      /\ \/ /\ Mounted(i) /\ stack' = <<>> /\ io' = Overtaken(Tail(io), Screens)
            /\ hook' = [j \in Screens |-> [NoHook EXCEPT !.kind = hook[j].kind]]
         \/ /\ ~Mounted(i) /\ io' = Tail(io) /\ UNCHANGED <<stack, hook>>
      /\ UNCHANGED <<wire, requests, drafts>>
  BY <1>1, <1>2, EndClearIs
<1>4. IntakeShape' /\ IntakeOrder'
  BY <1>1, EndClearOrders
<1>5. CASE /\ stack' = <<>> /\ io' = Overtaken(Tail(io), Screens)
           /\ hook' = [j \in Screens |-> [NoHook EXCEPT !.kind = hook[j].kind]]
  <2>1. Shorter(io', io, 1, Screens)
    BY <1>1, <1>5, ClosedIs
  <2>2. \A j \in Screens : hook'[j].draft = EmptyDraft /\ hook'[j].kind = hook[j].kind
    BY <1>1, <1>5, BlankHooks
  <2> HIDE <1>5
  <2>3. stack' = <<>>
    BY <1>5
  <2> QED
    BY <1>1, <1>2, <1>3, <1>4, <2>1, <2>2, <2>3, ClearedKeeps
<1>6. CASE io' = Tail(io) /\ UNCHANGED <<stack, hook>>
  <2>1. Shorter(io', io, 1, {})
    BY <1>1, <1>6, HeadIs
  <2> QED
    BY <1>1, <1>2, <1>3, <1>4, <1>6, <2>1, ClearedKeeps
<1> QED
  BY <1>3, <1>5, <1>6

LEMMA KillKeeps ==
  ASSUME IntakeInvariant, Kill
  PROVE  IntakeInvariant'
<1>1. IntakeShape /\ IntakeOrder /\ OneIsAwaited
  BY DEF IntakeInvariant, IntakeOrder
<1>2. IntakeShape' /\ IntakeOrder'
  BY <1>1, KillOrders
<1>3. /\ io' = <<>> /\ stack' = <<>>
      /\ hook' = [j \in Screens |-> [NoHook EXCEPT !.kind = hook[j].kind]]
      /\ \/ UNCHANGED <<stored, astray>>
         \/ io # <<>> /\ Saving(1) /\ stored' = io[1].draft /\ UNCHANGED astray
         \/ /\ io # <<>> /\ io[1].op = "clear" /\ stored' \in {stored, EmptyDraft}
            /\ astray' = ClearedAstray(io[1])
      /\ \A j \in Screens : attempt'[j].stage = "idle" /\ attempt'[j].draft = attempt[j].draft
      /\ \A p \in wire' : \E q \in wire : p.draft = q.draft
      /\ \A p, q \in wire' : (\A a, b \in wire : a.draft = p.draft /\ b.draft = q.draft => a = b)
                                  => p = q
      /\ UNCHANGED <<requests, drafts>>
  BY <1>1, KillIs
<1>4. \A j \in Screens : hook'[j].draft = EmptyDraft
  BY <1>1, <1>3, BlankHooks
<1>5. DOMAIN io' = {} /\ \A k : ~InFront(k)' /\ ~Mounted(k)'
  BY <1>3 DEF InFront, Mounted, ToSet
<1>6. io # <<>> => 1 \in DOMAIN io
  BY <1>1, HeadIs
<1>7. DraftsAreFilled' /\ IdsAreCounted'
  <2>1. EmptyDraft \in IntakeDrafts /\ EmptyDraft.id = 0 /\ Empties(EmptyDraft)
        /\ drafts <= drafts' /\ EmptyDraft.id <= drafts'
    BY <1>1, <1>3, EmptyIsDraft DEF Empties, IntakeShape
  <2>2. \/ stored' \in {stored, EmptyDraft, EmptyDraft}
        \/ \E n \in DOMAIN io : stored' = io[n].draft
    BY <1>3, <1>6
  <2>3. Drafted(EmptyDraft)
    BY <1>3, <1>4, <1>5, <2>1, <2>2 DEF Drafted
  <2> QED
    BY <1>1, <1>2, <2>1, <2>3, IdsKeep DEF IntakeInvariant
<1>8. LateReads' /\ OneDraftIsWritten'
  BY <1>5 DEF LateReads, OneDraftIsWritten
<1>9. ReviewsSubmit'
  BY <1>3 DEF ReviewsSubmit
<1>10. astray \subseteq astray'
  BY <1>3, ClearedAstrayIs
<1>11. Tokens'
  <2> SUFFICES ASSUME NEW e \in Nat \ {0}, e \notin astray'
               PROVE  OnItsWayOnce(e)' /\ (OnItsWay(e)' => LockedOnItsWay(e)')
    BY DEF Tokens
  <2>1. OnItsWayOnce(e) /\ (OnItsWay(e) => LockedOnItsWay(e))
    BY <1>10 DEF IntakeInvariant, Tokens
  <2>2. \A j \in Screens : ~Holds(j, e)'
    BY <1>3 DEF Holds
  <2>3. OnItsWayOnce(e)' /\ (OnItsWay(e)' => OnItsWay(e))
    BY <1>3, <2>1, <2>2, OnceKeeps
  <2>4. ASSUME OnItsWay(e)'
        PROVE  LockedOnItsWay(e)'
    <3>1. Posted(e) \/ Requested(e)
      BY <1>3, <2>2, <2>4 DEF OnItsWay, Posted, Requested
    <3>2. \A j \in Screens : ~Holds(j, e)
      BY <2>1, <3>1 DEF OnItsWayOnce
    <3>3. /\ stored.id = e => Locked(stored)
          /\ \A n \in DOMAIN io : Saving(n) /\ io[n].draft.id = e => Locked(io[n].draft)
      BY <2>1, <2>3, <2>4, <3>2 DEF LockedOnItsWay
    <3>4. stored'.id = e => Locked(stored')
      BY <1>3, <1>6, <3>3, EmptyIsDraft
    <3> QED
      BY <1>5, <3>4 DEF LockedOnItsWay
  <2> QED
    BY <2>3, <2>4
<1>12. Undisturbed'
  <2> SUFFICES ASSUME astray' = {}
               PROVE  LatestDraft' /\ OthersAreKnown' /\ FrontIsWritten'
    BY DEF Undisturbed
  <2>1. /\ LatestDraft /\ OthersAreKnown /\ OneDraftIsWritten
    BY <1>10 DEF IntakeInvariant, Undisturbed
  <2>2. \/ stored' = stored
        \/ 1 \in DOMAIN io /\ Saving(1) /\ stored' = io[1].draft
        \/ stored' = EmptyDraft /\ (stored.id = 0 \/ Requested(stored.id))
    BY <1>3, <1>6, ClearedIsRequested
  <2>3. \A d : Requested(d) <=> Requested(d)'
    BY <1>3 DEF Requested
  <2>4. ASSUME NEW x, x = stored'.id, x # 0, ~Requested(x)'
        PROVE  x = drafts'
    <3>1. ~Requested(x)
      BY <2>3, <2>4
    <3> QED
      BY <1>3, <2>1, <2>2, <2>4, <3>1, EmptyIsDraft DEF LatestDraft, Pending
  <2>5. ASSUME NEW p \in wire', NEW x, x = p.draft.id, x # 0, ~Requested(x)'
        PROVE  stored'.id = x
    <3>1. PICK q \in wire : p.draft = q.draft
      BY <1>3
    <3>2. Pending(q.draft)
      BY <2>3, <2>5, <3>1 DEF Pending
    <3>3. stored.id = x /\ ~Requested(x)
      BY <2>1, <2>5, <3>1, <3>2 DEF LatestDraft, Pending
    <3>4. CASE 1 \in DOMAIN io /\ Saving(1) /\ stored' = io[1].draft
      BY <2>1, <2>5, <3>3, <3>4 DEF LatestDraft, OneDraftIsWritten, Same
    <3> QED
      BY <2>2, <2>5, <3>3, <3>4
  <2>6. \A j \in Screens : ~InChain(j)' /\ attempt'[j].stage \notin {"created", "clearing", "settling"}
    BY <1>3 DEF InChain
  <2>7. LatestDraft'
    BY <1>5, <2>4, <2>5, <2>6, LatestIs
  <2>8. OthersAreKnown'
    <3>1. KnowsTheOthers(EmptyDraft)
      BY EmptyIsDraft DEF KnowsTheOthers
    <3>2. KnowsTheOthers(stored')
      BY <2>1, <2>2, <3>1 DEF OthersAreKnown
    <3>3. KnowsTheOthers(stored)'
      BY <1>3, <3>2 DEF KnowsTheOthers, Pending, Requested
    <3> QED
      BY <1>5, <2>6, <3>3 DEF OthersAreKnown
  <2>9. FrontIsWritten'
    BY <1>5 DEF FrontIsWritten
  <2> QED
    BY <2>7, <2>8, <2>9
<1> QED
  BY <1>2, <1>7, <1>8, <1>9, <1>11, <1>12 DEF IntakeInvariant

\* What is filled in has an id.
LEMMA FilledIn ==
  ASSUME NEW x, Empties(x), Complete(x) \/ Locked(x)
  PROVE  x.id # 0
  BY DEF Empties, Complete, Locked, EmptyDraft

\* Nothing is written, and what is shown and stored stays.
LEMMA StillDrafted ==
  ASSUME IntakeInvariant, UNCHANGED <<stored, io, hook, drafts>>, NEW d, Empties(d), d.id <= drafts,
         \A j \in Screens : attempt'[j].draft \in {d, attempt[j].draft, hook[j].draft},
         \A p \in wire' : (Locked(p.draft) /\ p.draft = d) \/ \E q \in wire : p.draft = q.draft,
         \/ requests' = requests
         \/ \E post \in wire : requests' = Append(requests, Requesting(post))
  PROVE  Drafted(d)
<1>1. drafts <= drafts'
  BY DEF IntakeInvariant, IntakeShape
<1>2. \A n \in DOMAIN io' : \E m \in DOMAIN io : io'[n].draft = io[m].draft
  OBVIOUS
<1>3. /\ stored' \in {stored, d, EmptyDraft}
      /\ \A j \in Screens : hook'[j].draft \in {d, EmptyDraft, stored, hook[j].draft}
  OBVIOUS
<1> QED
  BY <1>1, <1>2, <1>3 DEF Drafted

LEMMA PressChecksKeeps ==
  ASSUME IntakeInvariant, NEW i \in Screens, Press(i), Locked(hook[i].draft)
  PROVE  IntakeInvariant'
<1>1. IntakeShape /\ IntakeOrder /\ ReviewsSubmit /\ 0 \in {0, 1}
  BY DEF IntakeInvariant
<1>2. IntakeShape' /\ IntakeOrder'
  BY <1>1, PressOrders
<1>3. /\ InFront(i) /\ hook[i].ready /\ attempt[i].stage = "idle"
      /\ attempt'[i].stage = "checking" /\ attempt'[i].draft = hook[i].draft
      /\ \A j \in Screens : j # i => attempt'[j] = attempt[j]
      /\ UNCHANGED <<stored, io, stack, hook, wire, requests, astray, drafts>>
  BY <1>1, PressChecks
<1>4. /\ Settles(0) /\ LateReads' /\ StoredSettles(0)
      /\ astray = {} => ErrorsSettle(0)
  BY <1>2, <1>3, StandsStill
<1>5. EmptyDraft \in IntakeDrafts /\ Drafted(EmptyDraft)
  <2>1. EmptyDraft \in IntakeDrafts /\ Empties(EmptyDraft) /\ EmptyDraft.id <= drafts
    BY <1>1, EmptyIsDraft DEF Empties, IntakeShape
  <2>2. /\ \A j \in Screens : attempt'[j].draft \in {EmptyDraft, attempt[j].draft, hook[j].draft}
        /\ \A p \in wire' : \E q \in wire : p.draft = q.draft
    BY <1>3
  <2> QED
    BY <1>3, <2>1, <2>2, StillDrafted
<1>6. ReviewsSubmit'
  BY <1>1, <1>3 DEF ReviewsSubmit
<1>7. ASSUME NEW e \in Nat \ {0}, OnItsWayOnce(e)
      PROVE  OnItsWayOnce(e)' /\ (OnItsWay(e)' => OnItsWay(e) /\ SubmitsKeep(0, e))
  <2>1. \A j \in Screens : (Holds(j, e)' <=> Holds(j, e)) /\ (Submits(j, e)' <=> Submits(j, e))
    BY <1>3 DEF Holds, Submits
  <2>2. OnItsWayOnce(e)' /\ (OnItsWay(e)' => OnItsWay(e))
    BY <1>3, <1>7, <2>1, WireStays, OnceKeeps
  <2> QED
    BY <2>1, <2>2 DEF SubmitsKeep
<1>8. ASSUME astray' = {}
      PROVE  SettlesDrafts(0) /\ OthersAreKnown'
  <2>1. LatestDraft /\ OthersAreKnown /\ ErrorsSettle(0)
    BY <1>3, <1>4, <1>8 DEF IntakeInvariant, Undisturbed
  <2>2. \A d : Requested(d) <=> Requested(d)'
    BY <1>3 DEF Requested
  <2>3. ASSUME NEW j \in Screens, attempt'[j].stage \in {"created", "clearing", "settling"}
        PROVE  Requested(attempt[j].draft.id)'
    <3>1. attempt'[j] = attempt[j] /\ Requested(attempt[j].draft.id)
      BY <1>3, <2>1, <2>3 DEF LatestDraft
    <3> QED
      BY <2>2, <3>1 DEF Requested
  <2>4. ASSUME Pending(attempt[i].draft)'
        PROVE  stored'.id = attempt'[i].draft.id
    <3>1. Pending(hook[i].draft)
      BY <1>3, <2>4 DEF Pending, Requested
    <3> QED
      BY <1>3, <2>1, <3>1 DEF LatestDraft
  <2>5. ASSUME NEW j \in Screens, InChain(j)', Pending(attempt[j].draft)'
        PROVE  \/ InChain(j) /\ attempt'[j].draft.id = attempt[j].draft.id
               \/ stored'.id = attempt'[j].draft.id
    BY <1>3, <2>4, <2>5 DEF InChain
  <2>6. ASSUME NEW j \in Screens,
               attempt'[j].stage \in {"noting", "noted", "saving", "posting", "refused"}
        PROVE  attempt'[j] = attempt[j]
    BY <1>3, <2>6
  <2>7. SettlesDrafts(0)
    <3>1. \A p \in wire' : \E q \in wire : p.draft = q.draft
      BY <1>3
    <3> QED
      BY <1>3, <1>4, <2>1, <2>2, <2>3, <2>5, <2>6, <3>1 DEF SettlesDrafts, ErrorsSettle,
         StoredSettles
  <2>8. OthersAreKnown'
    <3>1. KnowsTheOthers(hook[i].draft)
      BY <1>3, <2>1 DEF OthersAreKnown
    <3>2. \A j \in Screens : InChain(j)' =>
            \/ KnowsTheOthers(attempt'[j].draft)
            \/ InChain(j) /\ attempt'[j].draft = attempt[j].draft
      BY <1>3, <3>1 DEF InChain
    <3> QED
      BY <1>1, <1>2, <1>3, <1>4, <2>1, <3>2, OthersSettle
  <2> QED
    BY <2>7, <2>8
<1>9. /\ \A k \in Screens : InFront(k)' /\ hook'[k].kind = "review" /\ attempt'[k].stage \notin Resting =>
           attempt[k].stage \notin Resting /\ attempt'[k].draft.id = attempt[k].draft.id
      /\ \A k \in Screens : Mounted(k)' /\ attempt'[k].stage \in {"noting", "noted"} =>
           attempt[k].stage \in {"noting", "noted"} /\ attempt'[k].draft.id = attempt[k].draft.id
      /\ astray \subseteq astray'
  BY <1>3 DEF Resting
<1> QED
  BY <1>1, <1>2, <1>4, <1>5, <1>6, <1>7, <1>8, <1>9, SettledKeeps

LEMMA ListingLeftKeeps ==
  ASSUME IntakeInvariant, NEW i \in Screens, ListExisting(i), ~Mounted(i)
  PROVE  IntakeInvariant'
<1>1. IntakeShape /\ IntakeOrder /\ ReviewsSubmit /\ 0 \in {0, 1}
  BY DEF IntakeInvariant
<1>2. IntakeShape' /\ IntakeOrder'
  BY <1>1, ListingOrders
<1>3. PICK d : d = Submitting(i)
  OBVIOUS
<1>4. PICK p : p = Post(i, d)
  OBVIOUS
<1>5. /\ wire' = wire \union {p} /\ astray' = astray \union {d.id}
      /\ attempt[i].stage = "noted" /\ attempt'[i].stage = "posting" /\ attempt'[i].draft = d
      /\ \A j \in Screens : j # i => attempt'[j] = attempt[j]
      /\ UNCHANGED <<stored, io, stack, hook, requests, drafts>>
  BY <1>1, <1>3, <1>4, ListingPosts
<1>6. /\ d \in IntakeDrafts /\ d.id = attempt[i].draft.id /\ p.draft = d
      /\ d.submission = [text |-> attempt[i].draft.text, existing |-> DOMAIN requests]
  BY <1>1, <1>3, <1>4, SubmittingIs DEF Post
<1>7. /\ Complete(attempt[i].draft) /\ Empties(attempt[i].draft) /\ hook[i].kind = "review"
      /\ attempt[i].draft.id <= drafts
  BY <1>5 DEF IntakeInvariant, ReviewsSubmit, DraftsAreFilled, IdsAreCounted
<1>8. d.id # 0 /\ Locked(d)
  <2>1. d.id # 0
    BY <1>6, <1>7, FilledIn
  <2>2. d.submission.text # NoText
    BY <1>6, <1>7 DEF Complete
  <2> QED
    BY <2>1, <2>2 DEF Locked, NoSubmission
<1>9. Settles(0) /\ LateReads'
  BY <1>2, <1>5, StandsStill
<1>10. Drafted(d)
  <2>1. Empties(d) /\ d.id <= drafts
    BY <1>6, <1>7, <1>8 DEF Empties
  <2>2. /\ \A j \in Screens : attempt'[j].draft \in {d, attempt[j].draft, hook[j].draft}
        /\ \A q \in wire' : (Locked(q.draft) /\ q.draft = d) \/ \E o \in wire : q.draft = o.draft
    BY <1>5, <1>6, <1>8
  <2> QED
    BY <1>5, <2>1, <2>2, StillDrafted
<1>11. ReviewsSubmit'
  BY <1>1, <1>5, <1>7, <1>8 DEF ReviewsSubmit
<1>12. ASSUME NEW e \in Nat \ {0}, e \notin astray', OnItsWayOnce(e)
       PROVE  OnItsWayOnce(e)' /\ (OnItsWay(e)' => OnItsWay(e) /\ SubmitsKeep(0, e))
  <2>1. \A j \in Screens : (Holds(j, e)' <=> Holds(j, e)) /\ (Submits(j, e)' <=> Submits(j, e))
    BY <1>5 DEF Holds, Submits
  <2>2. \A q \in wire' : q.draft.id = e => q \in wire
    BY <1>5, <1>6, <1>12
  <2>3. (Posted(e)' <=> Posted(e)) /\ (Requested(e)' <=> Requested(e))
    BY <1>5, <2>2 DEF Posted, Requested
  <2>4. \A q, o \in wire' : q.draft.id = e /\ o.draft.id = e => q = o
    BY <1>12, <2>2 DEF OnItsWayOnce
  <2>5. \A r, q \in DOMAIN requests' : requests'[r].draft = e /\ requests'[q].draft = e => r = q
    BY <1>5, <1>12 DEF OnItsWayOnce
  <2>6. OnItsWayOnce(e)'
    BY <1>12, <2>1, <2>3, <2>4, <2>5 DEF OnItsWayOnce
  <2>7. OnItsWay(e)' => OnItsWay(e)
    BY <2>1, <2>3 DEF OnItsWay
  <2> QED
    BY <2>1, <2>6, <2>7 DEF SubmitsKeep
<1>13. /\ \A k \in Screens : InFront(k)' /\ hook'[k].kind = "review" /\ attempt'[k].stage \notin Resting =>
            attempt[k].stage \notin Resting /\ attempt'[k].draft.id = attempt[k].draft.id
       /\ \A k \in Screens : Mounted(k)' /\ attempt'[k].stage \in {"noting", "noted"} =>
            attempt[k].stage \in {"noting", "noted"} /\ attempt'[k].draft.id = attempt[k].draft.id
       /\ astray \subseteq astray' /\ astray' # {}
  BY <1>5, <1>6 DEF Resting
<1> QED
  BY <1>1, <1>2, <1>6, <1>9, <1>10, <1>11, <1>12, <1>13, SettledKeeps

LEMMA ServePostIs ==
  ASSUME IntakeShape, HeardPosts, NEW post \in wire, ServePost(post)
  PROVE  /\ wire' = wire \ {post}
         /\ \E stage \in {"created", "refused"} :
              /\ \/ stage = "created" /\ requests' = Append(requests, Requesting(post))
                 \/ stage = "refused" /\ requests' = requests
              /\ \A j \in Screens :
                   \/ attempt'[j] = attempt[j]
                   \/ /\ j = post.by /\ attempt[j].stage = "posting" /\ attempt[j].draft = post.draft
                      /\ attempt'[j].stage = stage /\ attempt'[j].draft = attempt[j].draft
         /\ UNCHANGED <<stored, io, stack, hook, astray, drafts>>
<1>1. /\ wire' = wire \ {post} /\ UNCHANGED <<stored, io, stack, hook, astray, drafts>>
      /\ \E stage \in {"created", "refused"} :
           /\ \/ stage = "created" /\ requests' = Append(requests, Requesting(post))
              \/ stage = "refused" /\ requests' = requests
           /\ attempt' = IF post.heard THEN At(post.by, stage) ELSE attempt
  BY DEF ServePost, Requesting
<1>2. PICK stage \in {"created", "refused"} :
           /\ \/ stage = "created" /\ requests' = Append(requests, Requesting(post))
              \/ stage = "refused" /\ requests' = requests
           /\ attempt' = IF post.heard THEN At(post.by, stage) ELSE attempt
  BY <1>1
<1>3. PICK i \in Screens : i = post.by
  BY DEF IntakeShape
<1>4. CASE post.heard
  <2>1. attempt[i].stage = "posting" /\ attempt[i].draft = post.draft
    BY <1>3, <1>4 DEF HeardPosts
  <2>2. /\ attempt'[i].stage = stage /\ attempt'[i].draft = attempt[i].draft
        /\ \A j \in Screens : j # i => attempt'[j] = attempt[j]
    BY <1>2, <1>3, <1>4, AtIs DEF Stages
  <2>3. \A j \in Screens :
          \/ attempt'[j] = attempt[j]
          \/ /\ j = post.by /\ attempt[j].stage = "posting" /\ attempt[j].draft = post.draft
             /\ attempt'[j].stage = stage /\ attempt'[j].draft = attempt[j].draft
    BY <1>3, <2>1, <2>2
  <2> QED
    BY <1>1, <1>2, <2>3
<1>5. CASE ~post.heard
  BY <1>1, <1>2, <1>5
<1> QED
  BY <1>4, <1>5

\* What becomes a request was the only draft that was not one.
LEMMA AcceptSettles ==
  ASSUME IntakeInvariant, astray = {}, NEW post \in wire
  PROVE  /\ post.draft.id # 0 /\ stored.id = post.draft.id
         /\ Pending(stored) /\ stored.id = drafts
<1>1. Locked(post.draft) /\ Empties(post.draft) /\ post.draft.id \in Nat
  BY DEF IntakeInvariant, DraftsAreFilled, IntakeShape, IntakeDrafts
<1>2. post.draft.id # 0
  BY <1>1, FilledIn
<1>3. OnItsWayOnce(post.draft.id)
  BY <1>1, <1>2 DEF IntakeInvariant, Tokens
<1>4. ~Requested(post.draft.id)
  BY <1>3 DEF OnItsWayOnce, Posted
<1>5. stored.id = post.draft.id
  BY <1>2, <1>4 DEF IntakeInvariant, Undisturbed, LatestDraft, Pending
<1>6. Pending(stored)
  BY <1>2, <1>4, <1>5 DEF Pending
<1> QED
  BY <1>2, <1>5, <1>6 DEF IntakeInvariant, Undisturbed, LatestDraft

LEMMA ServePostKeeps ==
  ASSUME IntakeInvariant, NEW post \in wire, ServePost(post)
  PROVE  IntakeInvariant'
<1>1. IntakeShape /\ IntakeOrder /\ ReviewsSubmit /\ 0 \in {0, 1} /\ HeardPosts
  BY DEF IntakeInvariant, IntakeOrder
<1>2. IntakeShape' /\ IntakeOrder'
  BY <1>1, ServePostOrders
<1>3. wire' = wire \ {post} /\ UNCHANGED <<stored, io, stack, hook, astray, drafts>>
  BY <1>1, ServePostIs
<1>4. PICK stage \in {"created", "refused"} :
        /\ \/ stage = "created" /\ requests' = Append(requests, Requesting(post))
           \/ stage = "refused" /\ requests' = requests
        /\ \A j \in Screens :
             \/ attempt'[j] = attempt[j]
             \/ /\ j = post.by /\ attempt[j].stage = "posting" /\ attempt[j].draft = post.draft
                /\ attempt'[j].stage = stage /\ attempt'[j].draft = attempt[j].draft
  BY <1>1, ServePostIs
<1>5. PICK d : d = post.draft.id
  OBVIOUS
<1>6. \A e : (Requested(e)' <=> Requested(e) \/ (stage = "created" /\ e = d))
  <2>1. CASE stage = "created"
    <3>1. /\ DOMAIN requests' = DOMAIN requests \union {Len(requests) + 1}
          /\ \A r \in DOMAIN requests : requests'[r] = requests[r]
          /\ requests'[Len(requests) + 1].draft = d
      BY <1>1, <1>4, <1>5, <2>1, RequestIs
    <3> QED
      BY <2>1, <3>1 DEF Requested
  <2>2. CASE stage = "refused"
    BY <1>4, <2>2 DEF Requested
  <2> QED
    BY <2>1, <2>2
<1>7. /\ Settles(0) /\ LateReads' /\ StoredSettles(0)
      /\ astray = {} => ErrorsSettle(0)
  BY <1>2, <1>3, StandsStill
<1>8. EmptyDraft \in IntakeDrafts /\ Drafted(EmptyDraft)
  <2>1. EmptyDraft \in IntakeDrafts /\ Empties(EmptyDraft) /\ EmptyDraft.id <= drafts
    BY <1>1, EmptyIsDraft DEF Empties, IntakeShape
  <2>2. /\ \A j \in Screens : attempt'[j].draft \in {EmptyDraft, attempt[j].draft, hook[j].draft}
        /\ \A p \in wire' : \E q \in wire : p.draft = q.draft
    BY <1>3, <1>4
  <2>3. \/ requests' = requests
        \/ \E p \in wire : requests' = Append(requests, Requesting(p))
    BY <1>4
  <2> QED
    BY <1>3, <2>1, <2>2, <2>3, StillDrafted
<1>9. ReviewsSubmit'
  <2>1. ASSUME NEW j \in Screens
        PROVE  /\ attempt'[j].stage \in {"noting", "noted"} =>
                    ~Locked(attempt'[j].draft) /\ Complete(attempt'[j].draft)
               /\ attempt'[j].stage \in {"saving", "posting", "created", "refused", "clearing",
                                        "settling", "checking"} =>
                    Locked(attempt'[j].draft)
               /\ attempt'[j].stage \in {"noted", "saving", "posting", "created", "refused", "undoing"} =>
                    hook'[j].kind = "review"
    <3>1. CASE attempt'[j] = attempt[j]
      BY <1>1, <1>3, <3>1 DEF ReviewsSubmit
    <3>2. CASE /\ j = post.by /\ attempt[j].stage = "posting" /\ attempt[j].draft = post.draft
               /\ attempt'[j].stage = stage /\ attempt'[j].draft = attempt[j].draft
      BY <1>1, <1>3, <3>2 DEF ReviewsSubmit
    <3> QED
      BY <1>4, <3>1, <3>2
  <2> QED
    BY <2>1 DEF ReviewsSubmit
<1>10. ASSUME NEW e \in Nat \ {0}, OnItsWayOnce(e)
       PROVE  OnItsWayOnce(e)' /\ (OnItsWay(e)' => OnItsWay(e) /\ SubmitsKeep(0, e))
  <2>1. \A j \in Screens : Submits(j, e)' <=> Submits(j, e)
    BY <1>4 DEF Submits
  <2>2. CASE e = d
    <3>1. Posted(e) /\ \A p \in wire : p.draft.id = e => p = post
      BY <1>5, <1>10, <2>2 DEF Posted, OnItsWayOnce
    <3>2. ~Requested(e) /\ \A j \in Screens : ~Holds(j, e)
      BY <1>10, <3>1 DEF OnItsWayOnce
    <3>3. ~Posted(e)' /\ \A p \in wire' : p.draft.id # e
      BY <1>3, <3>1 DEF Posted
    <3>4. \A j \in Screens : Holds(j, e)' => j = post.by /\ stage = "refused"
      BY <1>4, <3>2 DEF Holds
    <3>5. Requested(e)' => stage = "created"
      BY <1>6, <3>2
    <3>6. \A r, q \in DOMAIN requests' : requests'[r].draft = e /\ requests'[q].draft = e => r = q
      <4>1. CASE stage = "created"
        <5>1. /\ DOMAIN requests' = DOMAIN requests \union {Len(requests) + 1}
              /\ \A r \in DOMAIN requests : requests'[r] = requests[r]
          BY <1>1, <1>4, <4>1, RequestIs
        <5> QED
          BY <3>2, <5>1 DEF Requested
      <4>2. CASE stage = "refused"
        BY <1>4, <1>10, <4>2 DEF OnItsWayOnce
      <4> QED
        BY <4>1, <4>2
    <3>7. OnItsWayOnce(e)'
      BY <3>3, <3>4, <3>5, <3>6 DEF OnItsWayOnce
    <3> QED
      BY <2>1, <3>1, <3>7 DEF OnItsWay, SubmitsKeep
  <2>3. CASE e # d
    <3>1. \A j \in Screens : Holds(j, e)' <=> Holds(j, e)
      BY <1>4, <1>5, <2>3 DEF Holds
    <3>2. \A p \in wire' : p \in wire
      BY <1>3
    <3>3. Posted(e)' <=> Posted(e)
      BY <1>3, <1>5, <2>3 DEF Posted
    <3>4. Requested(e)' <=> Requested(e)
      BY <1>6, <2>3
    <3>5. \A r, q \in DOMAIN requests' : requests'[r].draft = e /\ requests'[q].draft = e => r = q
      <4>1. CASE stage = "created"
        <5>1. /\ DOMAIN requests' = DOMAIN requests \union {Len(requests) + 1}
              /\ \A r \in DOMAIN requests : requests'[r] = requests[r]
              /\ requests'[Len(requests) + 1].draft = d
          BY <1>1, <1>4, <1>5, <4>1, RequestIs
        <5> QED
          BY <1>10, <2>3, <5>1 DEF OnItsWayOnce
      <4>2. CASE stage = "refused"
        BY <1>4, <1>10, <4>2 DEF OnItsWayOnce
      <4> QED
        BY <4>1, <4>2
    <3>6. \A p, q \in wire' : p.draft.id = e /\ q.draft.id = e => p = q
      BY <1>10, <3>2 DEF OnItsWayOnce
    <3>7. OnItsWayOnce(e)'
      BY <1>10, <3>1, <3>3, <3>4, <3>5, <3>6 DEF OnItsWayOnce
    <3>8. OnItsWay(e)' => OnItsWay(e)
      BY <3>1, <3>3, <3>4 DEF OnItsWay
    <3> QED
      BY <2>1, <3>7, <3>8 DEF SubmitsKeep
  <2> QED
    BY <2>2, <2>3
<1>11. ASSUME astray' = {}
       PROVE  SettlesDrafts(0) /\ OthersAreKnown'
  <2>1. astray = {} /\ LatestDraft /\ OthersAreKnown /\ ErrorsSettle(0)
    BY <1>3, <1>7, <1>11 DEF IntakeInvariant, Undisturbed
  <2>2. \A e : Requested(e) => Requested(e)'
    BY <1>6
  <2>3. ASSUME NEW j \in Screens
        PROVE  /\ attempt'[j].draft = attempt[j].draft
               /\ InChain(j)' => InChain(j)
               /\ attempt'[j].stage \in {"noting", "noted", "saving", "posting", "refused"} =>
                    /\ attempt[j].stage \in {"noting", "noted", "saving", "posting", "refused"}
                    /\ attempt'[j].draft.id = attempt[j].draft.id
               /\ attempt'[j].stage \in {"created", "clearing", "settling"} =>
                    Requested(attempt[j].draft.id) \/ (stage = "created" /\ attempt[j].draft.id = d)
    <3>1. CASE attempt'[j] = attempt[j]
      BY <2>1, <3>1 DEF InChain, LatestDraft
    <3>2. CASE /\ j = post.by /\ attempt[j].stage = "posting" /\ attempt[j].draft = post.draft
               /\ attempt'[j].stage = stage /\ attempt'[j].draft = attempt[j].draft
      BY <1>4, <1>5, <3>2 DEF InChain
    <3> QED
      BY <1>4, <3>1, <3>2
  <2>4. ASSUME NEW j \in Screens, attempt'[j].stage \in {"created", "clearing", "settling"}
        PROVE  Requested(attempt[j].draft.id)'
    <3>1. PICK x : x = attempt[j].draft.id
      OBVIOUS
    <3>2. Requested(x)'
      BY <1>6, <2>3, <2>4, <3>1
    <3> QED
      BY <2>3, <3>1, <3>2 DEF Requested
  <2>5. SettlesDrafts(0)
    <3>1. \A p \in wire' : \E q \in wire : p.draft = q.draft
      BY <1>3
    <3>2. \A j \in Screens :
            InFront(j)' /\ attempt'[j].stage \in {"noting", "noted", "saving", "posting", "refused"} =>
              /\ attempt[j].stage \in {"noting", "noted", "saving", "posting", "refused"}
              /\ attempt'[j].draft.id = attempt[j].draft.id
              /\ attempt[j].stage = "noting" =>
                   attempt'[j].stage = "noting" \/ hook'[j].draft = hook[j].draft
      BY <1>3, <2>3
    <3>3. \A j \in Screens : InChain(j)' /\ Pending(attempt[j].draft)' =>
            \/ InChain(j) /\ attempt'[j].draft.id = attempt[j].draft.id
            \/ stored'.id = attempt'[j].draft.id
      BY <2>3
    <3> QED
      BY <1>3, <1>7, <2>1, <2>2, <2>4, <3>1, <3>2, <3>3 DEF SettlesDrafts, ErrorsSettle,
         StoredSettles
  <2>6. OthersAreKnown'
    <3>1. CASE stage = "refused"
      <4>1. \A j \in Screens : InChain(j)' =>
              \/ KnowsTheOthers(attempt'[j].draft)
              \/ InChain(j) /\ attempt'[j].draft = attempt[j].draft
        BY <2>3
      <4> QED
        BY <1>1, <1>2, <1>4, <1>7, <2>1, <3>1, <4>1, OthersSettle
    <3>2. CASE stage = "created"
      <4>1. d # 0 /\ stored.id = d /\ d = drafts
        BY <1>5, <2>1, AcceptSettles
      <4>2. \A x : x.id = d => KnowsTheOthers(x)'
        BY <1>6, <3>2 DEF KnowsTheOthers, Pending, Requested
      <4>3. \A x : ~Pending(x) => KnowsTheOthers(x)'
        BY <1>6 DEF KnowsTheOthers, Pending, Requested
      <4>4. KnowsTheOthers(stored)'
        BY <1>3, <4>1, <4>2 DEF KnowsTheOthers, Pending, Requested
      <4>5. (\A n \in DOMAIN io : Saving(n) => KnowsTheOthers(io[n].draft))'
        BY <1>3, <2>1, <4>1, <4>2, <4>3 DEF LatestDraft, Saving, KnowsTheOthers, Pending,
           Requested
      <4>6. (\A k \in Screens : InFront(k) /\ hook[k].ready => KnowsTheOthers(hook[k].draft))'
        BY <1>3, <2>1, <4>1, <4>2, <4>3 DEF LatestDraft, InFront, KnowsTheOthers, Pending,
           Requested
      <4>7. (\A j \in Screens : InChain(j) => KnowsTheOthers(attempt[j].draft))'
        <5> SUFFICES ASSUME NEW j \in Screens, InChain(j)'
                     PROVE  KnowsTheOthers(attempt[j].draft)'
          OBVIOUS
        <5>1. PICK x : x = attempt[j].draft
          OBVIOUS
        <5>2. attempt'[j].draft = x /\ InChain(j)
          BY <2>3, <5>1
        <5>3. ~Pending(x) \/ x.id = d
          BY <2>1, <4>1, <5>1, <5>2 DEF LatestDraft
        <5>4. KnowsTheOthers(x)'
          BY <4>2, <4>3, <5>3
        <5> QED
          BY <5>2, <5>4 DEF KnowsTheOthers, Pending, Requested
      <4> QED
        BY <4>4, <4>5, <4>6, <4>7 DEF OthersAreKnown
    <3> QED
      BY <3>1, <3>2
  <2> QED
    BY <2>5, <2>6
<1>12. /\ \A k \in Screens : InFront(k)' /\ hook'[k].kind = "review" /\ attempt'[k].stage \notin Resting =>
            attempt[k].stage \notin Resting /\ attempt'[k].draft.id = attempt[k].draft.id
       /\ \A k \in Screens : Mounted(k)' /\ attempt'[k].stage \in {"noting", "noted"} =>
            attempt[k].stage \in {"noting", "noted"} /\ attempt'[k].draft.id = attempt[k].draft.id
       /\ astray \subseteq astray'
  BY <1>3, <1>4 DEF Resting
<1> QED
  BY <1>1, <1>2, <1>7, <1>8, <1>9, <1>10, <1>11, <1>12, SettledKeeps

-----------------------------------------------------------------------------
\* What is written is the last to be: the writes before it stay.
LEMMA WritesAre ==
  ASSUME IntakeShape, NEW i \in Screens, NEW d, NEW w, Writes(i, d, w)
  PROVE  /\ \A n \in DOMAIN io' : io'[n].op = "save" =>
              \/ /\ n \in DOMAIN io /\ n < Len(io') /\ Saving(n) /\ io'[n].draft = io[n].draft
                 /\ io'[n].by = io[n].by /\ io'[n].wakes = io[n].wakes
              \/ n = Len(io') /\ io'[n].draft = d /\ io'[n].by = i /\ io'[n].wakes = w
         /\ \A n \in DOMAIN io : Saving(n) =>
              n \in DOMAIN io' /\ n < Len(io') /\ io'[n].op = "save" /\ io'[n].draft = io[n].draft
         /\ Len(io') \in DOMAIN io' /\ io'[Len(io')].op = "save" /\ io'[Len(io')].draft = d
         /\ NoReadBegun(0)
         /\ \A n \in DOMAIN io' : io'[n].draft = d \/ \E m \in DOMAIN io : io'[n].draft = io[m].draft
<1>1. PICK e : e = Writing(i, d, w)
  OBVIOUS
<1>2. e.op = "save" /\ e.by = i /\ e.draft = d /\ e.wakes = w
  BY <1>1 DEF Writing
<1>3. Longer(io', io, 0, {i}, e)
  BY <1>1 DEF Writes
<1>4. \A n \in DOMAIN io : n \in Nat /\ n > 0 /\ n + 0 = n
  BY DEF IntakeShape
<1>5. \A n \in DOMAIN io' : n \in Nat /\ n + 0 = n
  BY <1>3 DEF Longer
<1> HIDE <1>1
<1>6. /\ \A n \in DOMAIN io' :
           \/ n < Len(io') /\ n \in DOMAIN io /\ Carries(io'[n], io[n], {i})
           \/ n = Len(io') /\ io'[n] = e
      /\ Len(io') \in DOMAIN io'
  BY <1>3, <1>5 DEF Longer
<1>7. \A n \in DOMAIN io :
        n \in DOMAIN io' /\ n < Len(io') /\ Carries(io'[n], io[n], {i})
  <2> SUFFICES ASSUME NEW n \in DOMAIN io
               PROVE  n \in DOMAIN io' /\ n < Len(io') /\ Carries(io'[n], io[n], {i})
    OBVIOUS
  <2>1. PICK m \in DOMAIN io' : m + 0 = n /\ m < Len(io') /\ Carries(io'[m], io[n], {i})
    BY <1>3, <1>4 DEF Longer
  <2> QED
    BY <1>5, <2>1
<1>8. ASSUME NEW n \in DOMAIN io', io'[n].op = "save"
      PROVE  \/ /\ n \in DOMAIN io /\ n < Len(io') /\ Saving(n) /\ io'[n].draft = io[n].draft
                /\ io'[n].by = io[n].by /\ io'[n].wakes = io[n].wakes
             \/ n = Len(io') /\ io'[n].draft = d /\ io'[n].by = i /\ io'[n].wakes = w
  BY <1>2, <1>6, <1>8 DEF Carries, Saving
<1>9. \A n \in DOMAIN io : Saving(n) =>
        n \in DOMAIN io' /\ n < Len(io') /\ io'[n].op = "save" /\ io'[n].draft = io[n].draft
  BY <1>7 DEF Carries, Saving
<1>10. io'[Len(io')] = e
  BY <1>6
<1>11. NoReadBegun(0)
  <2>1. \A n \in DOMAIN io' : io'[n].op = "load" =>
          /\ n \in DOMAIN io /\ io[n].op = "load" /\ io'[n].by = io[n].by
          /\ io'[n].wakes => io[n].wakes
    BY <1>2, <1>6 DEF Carries
  <2> QED
    BY <1>5, <2>1 DEF NoReadBegun
<1>12. \A n \in DOMAIN io' : io'[n].draft = d \/ \E m \in DOMAIN io : io'[n].draft = io[m].draft
  BY <1>2, <1>6 DEF Carries
<1> QED
  BY <1>2, <1>6, <1>8, <1>9, <1>10, <1>11, <1>12

\* The write is of the one draft there is.
OfOneDraft(i, d) ==
  /\ Same(d.id, stored.id)
  /\ \A n \in DOMAIN io : Saving(n) => Same(io[n].draft.id, d.id)
  /\ hook[i].ready =>
       /\ OfDraft(stored.id, d.id)
       /\ \A n \in DOMAIN io : Saving(n) => OfDraft(io[n].draft.id, d.id)
  /\ hook[i].kind = "review" /\ attempt'[i].stage \notin Resting =>
       /\ OfDraft(stored.id, attempt'[i].draft.id)
       /\ OfDraft(d.id, attempt'[i].draft.id)
       /\ \A n \in DOMAIN io : Saving(n) => OfDraft(io[n].draft.id, attempt'[i].draft.id)

LEMMA WritesOneDraft ==
  ASSUME IntakeShape, OneDraftIsWritten, NEW i \in Screens, NEW d, NEW w, Writes(i, d, w),
         OfOneDraft(i, d)
  PROVE  OneDraftIsWritten'
<1>1. \A n \in DOMAIN io' : io'[n].op = "save" =>
        io'[n].draft = d \/ (n \in DOMAIN io /\ Saving(n) /\ io'[n].draft = io[n].draft)
  BY WritesAre
<1>2. /\ stored' = stored /\ hook'[i].draft = d /\ hook'[i].kind = hook[i].kind
      /\ hook'[i].ready = hook[i].ready
  BY DEF Writes
<1>3. \A k : InFront(k)' => k = i
  <2>1. \A k : InFront(k) => k = i
    BY Fronts DEF Writes
  <2> QED
    BY <2>1 DEF Writes, InFront
<1>4. ASSUME NEW m \in DOMAIN io', NEW n \in DOMAIN io', io'[m].op = "save", io'[n].op = "save"
      PROVE  Same(io'[m].draft.id, io'[n].draft.id)
  <2>1. io'[m].draft = d \/ (m \in DOMAIN io /\ Saving(m) /\ io'[m].draft = io[m].draft)
    BY <1>1, <1>4
  <2>2. io'[n].draft = d \/ (n \in DOMAIN io /\ Saving(n) /\ io'[n].draft = io[n].draft)
    BY <1>1, <1>4
  <2> QED
    BY <2>1, <2>2 DEF OfOneDraft, OneDraftIsWritten, Same
<1>5. ASSUME NEW n \in DOMAIN io', io'[n].op = "save"
      PROVE  /\ Same(io'[n].draft.id, stored.id)
             /\ hook[i].ready => OfDraft(io'[n].draft.id, d.id)
             /\ hook[i].kind = "review" /\ attempt'[i].stage \notin Resting =>
                  OfDraft(io'[n].draft.id, attempt'[i].draft.id)
  <2>1. io'[n].draft = d \/ (n \in DOMAIN io /\ Saving(n) /\ io'[n].draft = io[n].draft)
    BY <1>1, <1>5
  <2>2. OfDraft(d.id, d.id)
    BY DEF OfDraft
  <2> QED
    BY <2>1, <2>2 DEF OfOneDraft, OneDraftIsWritten
<1>6. /\ hook[i].ready => OfDraft(stored.id, d.id)
      /\ hook[i].kind = "review" /\ attempt'[i].stage \notin Resting =>
           OfDraft(stored.id, attempt'[i].draft.id) /\ OfDraft(d.id, attempt'[i].draft.id)
  BY DEF OfOneDraft
<1> QED
  BY <1>2, <1>3, <1>4, <1>5, <1>6 DEF OneDraftIsWritten, Saving, Resting

\* Of a draft that is not written now, or locked, all is as it was.
LEMMA WritesTokens ==
  ASSUME IntakeShape, IntakeOrder, NEW i \in Screens, NEW d, NEW w, Writes(i, d, w),
         NEW e \in Nat \ {0}, OnItsWayOnce(e), OnItsWay(e) => LockedOnItsWay(e),
         OnItsWay(e) /\ d.id = e => Locked(d),
         Holds(i, e)' <=> Holds(i, e), Submits(i, e)' <=> Submits(i, e),
         w /\ attempt'[i].stage # "undoing" => attempt'[i].draft = d,
         hook[i].kind = "review" /\ attempt'[i].stage \in {"noting", "noted"} /\ OnItsWay(e) =>
           attempt'[i].draft.id # e
  PROVE  OnItsWayOnce(e)' /\ (OnItsWay(e)' => LockedOnItsWay(e)')
<1>1. \A j \in Screens : (Holds(j, e)' <=> Holds(j, e)) /\ (Submits(j, e)' <=> Submits(j, e))
  BY DEF Writes, Holds, Submits
<1>2. UNCHANGED <<stored, stack, wire, requests>>
  BY DEF Writes
<1>3. OnItsWayOnce(e)' /\ (OnItsWay(e)' => OnItsWay(e))
  <2>1. /\ \A p \in wire' : \E q \in wire : p.draft = q.draft
        /\ \A p, q \in wire' : (\A a, b \in wire : a.draft = p.draft /\ b.draft = q.draft => a = b)
                                 => p = q
    BY <1>2, WireStays
  <2> QED
    BY <1>1, <1>2, <2>1, OnceKeeps
<1>4. ASSUME OnItsWay(e)
      PROVE  LockedOnItsWay(e)'
  <2>1. LockedOnItsWay(e) /\ (d.id = e => Locked(d))
    BY <1>4
  <2>2. \A n \in DOMAIN io' : io'[n].op = "save" =>
              \/ /\ n \in DOMAIN io /\ n < Len(io') /\ Saving(n) /\ io'[n].draft = io[n].draft
                 /\ io'[n].by = io[n].by /\ io'[n].wakes = io[n].wakes
              \/ n = Len(io') /\ io'[n].draft = d /\ io'[n].by = i /\ io'[n].wakes = w
    BY WritesAre
  <2>3. ASSUME \A j \in Screens : ~Submits(j, e)'
        PROVE  /\ stored'.id = e => Locked(stored')
               /\ \A n \in DOMAIN io' : io'[n].op = "save" /\ io'[n].draft.id = e => Locked(io'[n].draft)
    <3>1. \A j \in Screens : ~(Holds(j, e) /\ attempt[j].stage = "saving")
      BY <1>1, <2>3 DEF Holds, Submits
    <3>2. /\ stored.id = e => Locked(stored)
          /\ \A n \in DOMAIN io : Saving(n) /\ io[n].draft.id = e => Locked(io[n].draft)
      BY <2>1, <3>1 DEF LockedOnItsWay
    <3> QED
      BY <1>2, <2>1, <2>2, <3>2
  <2>4. ASSUME NEW m \in DOMAIN io', NEW n \in DOMAIN io', io'[m].op = "save", io'[m].wakes,
               NEW j \in Screens, j = io'[m].by, Holds(j, e), m < n, io'[n].op = "save",
               io'[n].draft.id = e
        PROVE  Locked(io'[n].draft)
    <3>1. m \in DOMAIN io /\ Saving(m) /\ io[m].wakes /\ io[m].by = j
      <4>1. m # Len(io')
        <5>1. io' \in Seq(Operations)
          BY DEF Writes, Longer
        <5>2. m \in Nat /\ n \in Nat /\ n <= Len(io') /\ Len(io') \in Nat
          BY <5>1
        <5> QED
          BY <2>4, <5>2
      <4> QED
        BY <2>2, <2>4, <4>1
    <3>2. n \in DOMAIN io /\ Saving(n) /\ io'[n].draft = io[n].draft => Locked(io'[n].draft)
      BY <2>1, <2>4, <3>1 DEF LockedOnItsWay
    <3> QED
      BY <2>1, <2>2, <2>4, <3>2
  <2>5. \A k : InFront(k)' => k = i
    <3>1. \A k : InFront(k) => k = i
      BY Fronts DEF Writes
    <3> QED
      BY <3>1 DEF Writes, InFront
  <2>6. \A k \in Screens : InFront(k)' /\ hook'[k].ready /\ hook'[k].draft.id = e => Locked(hook'[k].draft)
    BY <2>1, <2>5 DEF Writes
  <2>7. ASSUME NEW k \in Screens, Mounted(k)', hook'[k].kind = "review",
               attempt'[k].stage \in {"noting", "noted"}
        PROVE  attempt'[k].draft.id # e
    <3>1. CASE k = i
      BY <1>4, <2>7, <3>1 DEF Writes
    <3>2. CASE k # i
      <4>1. hook'[k] = hook[k] /\ attempt'[k] = attempt[k] /\ Mounted(k)
        BY <2>7, <3>2 DEF Writes, Mounted
      <4> QED
        BY <2>1, <2>7, <4>1 DEF LockedOnItsWay
    <3> QED
      BY <3>1, <3>2
  <2>8. (\A j \in Screens : ~(Holds(j, e) /\ attempt[j].stage = "saving"))' =>
          \A j \in Screens : ~Submits(j, e)'
    BY DEF Holds, Submits
  <2>9. (\A m, n \in DOMAIN io :
           /\ Saving(m) /\ io[m].wakes /\ Holds(io[m].by, e) /\ m < n /\ Saving(n) /\ io[n].draft.id = e =>
              Locked(io[n].draft))'
    <3> SUFFICES ASSUME NEW m \in DOMAIN io', NEW n \in DOMAIN io', Saving(m)', io'[m].wakes,
                        Holds(io[m].by, e)', m < n, Saving(n)', io'[n].draft.id = e
                 PROVE  Locked(io'[n].draft)
      OBVIOUS
    <3>1. io'[m] \in Operations
      BY DEF Writes, Longer
    <3>2. PICK j \in Screens : j = io'[m].by
      BY <3>1 DEF Operations
    <3>3. Holds(j, e)'
      BY <3>2 DEF Holds
    <3>4. Holds(j, e)
      BY <1>1, <3>3
    <3> QED
      BY <2>4, <3>2, <3>4 DEF Saving
  <2> QED
    BY <2>3, <2>6, <2>7, <2>8, <2>9 DEF LockedOnItsWay, Saving
<1> QED
  BY <1>3, <1>4

-----------------------------------------------------------------------------
\* What is written is the latest draft, or a request.
OfLatest(i, d) ==
  /\ d.id # 0 /\ (~Requested(d.id) => d.id = drafts')
  /\ drafts' = drafts \/ (stored.id = 0 /\ \A n \in DOMAIN io : ~Saving(n))
  /\ hook[i].ready /\ (hook[i].kind = "review" \/ Locked(d)) /\ ~Requested(d.id) => stored.id = d.id
  /\ InChain(i)' /\ ~Requested(attempt'[i].draft.id) =>
       attempt'[i].draft.id = 0 \/ stored.id = attempt'[i].draft.id
  /\ attempt'[i].stage \in {"noting", "noted", "saving", "posting", "refused"}
       /\ ~Requested(attempt'[i].draft.id) => attempt'[i].draft.id \in {0, d.id}
  /\ attempt'[i].stage \in {"created", "clearing", "settling"} => Requested(attempt'[i].draft.id)

LEMMA WritesLatest ==
  ASSUME IntakeShape, LatestDraft, NEW i \in Screens, NEW d, NEW w, Writes(i, d, w), OfLatest(i, d)
  PROVE  LatestDraft'
<1>1. /\ stored' = stored /\ wire' = wire /\ requests' = requests /\ hook'[i].draft = d
      /\ hook'[i].kind = hook[i].kind /\ hook'[i].ready = hook[i].ready
      /\ \A j \in Screens : j # i => hook'[j] = hook[j] /\ attempt'[j] = attempt[j]
  BY DEF Writes
<1>2. \A x : Requested(x)' <=> Requested(x)
  BY <1>1 DEF Requested
<1>3. \A k : InFront(k)' => k = i
  <2>1. \A k : InFront(k) => k = i
    BY Fronts DEF Writes
  <2> QED
    BY <2>1 DEF Writes, InFront
<1>4. ASSUME NEW x, x = stored'.id, x # 0, ~Requested(x)'
      PROVE  x = drafts'
  <2>1. Pending(stored)
    BY <1>1, <1>2, <1>4 DEF Pending
  <2> QED
    BY <1>1, <1>4, <2>1 DEF LatestDraft, OfLatest
<1>5. ASSUME NEW n \in DOMAIN io', NEW x, io'[n].op = "save", x = io'[n].draft.id
      PROVE  x # 0 /\ (~Requested(x)' => x = drafts')
  <2>1. io'[n].draft = d \/ (n \in DOMAIN io /\ Saving(n) /\ io'[n].draft = io[n].draft)
    BY <1>5, WritesAre
  <2>2. CASE io'[n].draft = d
    BY <1>2, <1>5, <2>2 DEF OfLatest
  <2>3. CASE n \in DOMAIN io /\ Saving(n) /\ io'[n].draft = io[n].draft
    <3>1. x # 0 /\ (~Requested(x) => x = drafts)
      BY <1>5, <2>3 DEF LatestDraft, Pending
    <3>2. drafts' = drafts
      BY <2>3 DEF OfLatest
    <3> QED
      BY <1>2, <3>1, <3>2
  <2> QED
    BY <2>1, <2>2, <2>3
<1>6. ASSUME NEW k \in Screens, NEW x,
             InFront(k)', hook'[k].ready, x = hook'[k].draft.id, x # 0, ~Requested(x)'
      PROVE  /\ x = drafts'
             /\ hook'[k].kind = "review" \/ Locked(hook'[k].draft) => stored'.id = x
  BY <1>1, <1>2, <1>3, <1>6 DEF OfLatest
<1>7. ASSUME NEW k \in Screens, InFront(k)', hook'[k].ready, hook'[k].error
      PROVE  hook'[k].draft.id # 0
  BY <1>1, <1>3, <1>7 DEF OfLatest
<1>8. ASSUME NEW j \in Screens, NEW x, InChain(j)', x = attempt'[j].draft.id, x # 0, ~Requested(x)'
      PROVE  stored'.id = x
  <2>1. CASE j = i
    BY <1>1, <1>2, <1>8, <2>1 DEF OfLatest
  <2>2. CASE j # i
    <3>1. InChain(j) /\ Pending(attempt[j].draft) /\ x = attempt[j].draft.id
      BY <1>1, <1>2, <1>8, <2>2 DEF InChain, Pending
    <3> QED
      BY <1>1, <3>1 DEF LatestDraft
  <2> QED
    BY <2>1, <2>2
<1>9. ASSUME NEW j \in Screens, NEW x,
             InFront(j)', attempt'[j].stage \in {"noting", "noted", "saving", "posting", "refused"},
             x = attempt'[j].draft.id, x # 0, ~Requested(x)'
      PROVE  hook'[j].draft.id = x
  BY <1>1, <1>2, <1>3, <1>9 DEF OfLatest
<1>10. ASSUME NEW p \in wire', NEW x, x = p.draft.id, x # 0, ~Requested(x)'
       PROVE  stored'.id = x
  <2>1. Pending(p.draft) /\ p \in wire
    BY <1>1, <1>2, <1>10 DEF Pending
  <2> QED
    BY <1>1, <1>10, <2>1 DEF LatestDraft
<1>11. ASSUME NEW j \in Screens, NEW x,
              attempt'[j].stage \in {"created", "clearing", "settling"}, x = attempt'[j].draft.id
       PROVE  Requested(x)'
  <2>1. CASE j = i
    BY <1>2, <1>11, <2>1 DEF OfLatest
  <2>2. CASE j # i
    BY <1>1, <1>2, <1>11, <2>2 DEF LatestDraft
  <2> QED
    BY <2>1, <2>2
<1> QED
  <2>1. /\ \A x : x = stored'.id /\ x # 0 /\ ~Requested(x)' => x = drafts'
        /\ \A n \in DOMAIN io' : \A x : io'[n].op = "save" /\ x = io'[n].draft.id =>
             x # 0 /\ (~Requested(x)' => x = drafts')
    BY <1>4, <1>5
  <2>2. \A k \in Screens : \A x :
           InFront(k)' /\ hook'[k].ready /\ x = hook'[k].draft.id /\ x # 0 /\ ~Requested(x)' =>
             /\ x = drafts'
             /\ hook'[k].kind = "review" \/ Locked(hook'[k].draft) => stored'.id = x
    BY <1>6
  <2>3. /\ \A k \in Screens :
             InFront(k)' /\ hook'[k].ready /\ hook'[k].error => hook'[k].draft.id # 0
        /\ \A j \in Screens : \A x :
             InChain(j)' /\ x = attempt'[j].draft.id /\ x # 0 /\ ~Requested(x)' => stored'.id = x
    BY <1>7, <1>8
  <2>4. \A j \in Screens : \A x :
             (/\ InFront(j)' /\ attempt'[j].stage \in {"noting", "noted", "saving", "posting", "refused"}
              /\ x = attempt'[j].draft.id /\ x # 0 /\ ~Requested(x)')
               => hook'[j].draft.id = x
    <3> SUFFICES ASSUME NEW j \in Screens, NEW x, InFront(j)',
                        attempt'[j].stage \in {"noting", "noted", "saving", "posting", "refused"},
                        x = attempt'[j].draft.id, x # 0, ~Requested(x)'
                 PROVE  hook'[j].draft.id = x
      OBVIOUS
    <3> QED
      BY <1>9
  <2>5. \A p \in wire' : \A x : x = p.draft.id /\ x # 0 /\ ~Requested(x)' => stored'.id = x
    BY <1>10
  <2>6. \A j \in Screens : \A x :
          attempt'[j].stage \in {"created", "clearing", "settling"} /\ x = attempt'[j].draft.id =>
            Requested(x)'
    BY <1>11
  <2> HIDE <1>4, <1>5, <1>6, <1>7, <1>8, <1>9, <1>10, <1>11
  <2> QED
    BY <2>1, <2>2, <2>3, <2>4, <2>5, <2>6, LatestIs

\* What the screen in front has written is what it shows.
LEMMA WritesFront ==
  ASSUME IntakeShape, NEW i \in Screens, NEW d, NEW w, Writes(i, d, w)
  PROVE  FrontIsWritten'
<1>1. \A k : InFront(k)' => k = i
  <2>1. \A k : InFront(k) => k = i
    BY Fronts DEF Writes
  <2> QED
    BY <2>1 DEF Writes, InFront
<1>2. hook'[i].draft = d
  BY DEF Writes
<1>3. Len(io') \in DOMAIN io' /\ io'[Len(io')].op = "save" /\ io'[Len(io')].draft = d
  BY WritesAre
<1>4. \A n \in DOMAIN io' : n = Len(io') \/ Len(io') > n
  <2>1. io' \in Seq(Operations)
    BY DEF Writes, Longer
  <2> QED
    BY <2>1
<1>5. \A n \in DOMAIN io' :
        io'[n].op = "save" /\ (\A q \in DOMAIN io' : q > n => io'[q].op # "save") => io'[n].draft = d
  BY <1>3, <1>4
<1>6. ~ \A n \in DOMAIN io' : io'[n].op # "save"
  BY <1>3
<1> QED
  BY <1>1, <1>2, <1>5, <1>6 DEF FrontIsWritten, Saving

LEMMA WritesOthers ==
  ASSUME IntakeShape, OthersAreKnown, NEW i \in Screens, NEW d, NEW w, Writes(i, d, w),
         KnowsTheOthers(d), InChain(i)' => KnowsTheOthers(attempt'[i].draft)
  PROVE  OthersAreKnown'
<1>1. /\ stored' = stored /\ requests' = requests /\ hook'[i].draft = d
      /\ \A j \in Screens : j # i => attempt'[j] = attempt[j]
  BY DEF Writes
<1>2. \A k : InFront(k)' => k = i
  <2>1. \A k : InFront(k) => k = i
    BY Fronts DEF Writes
  <2> QED
    BY <2>1 DEF Writes, InFront
<1>3. \A n \in DOMAIN io' : io'[n].op = "save" =>
        io'[n].draft = d \/ (n \in DOMAIN io /\ Saving(n) /\ io'[n].draft = io[n].draft)
  BY WritesAre
<1>4. \A n \in DOMAIN io' : io'[n].op = "save" => KnowsTheOthers(io'[n].draft)
  BY <1>3 DEF OthersAreKnown
<1>5. \A j \in Screens : InChain(j)' => KnowsTheOthers(attempt'[j].draft)
  BY <1>1 DEF OthersAreKnown, InChain
<1>6. KnowsTheOthers(stored')
  BY <1>1 DEF OthersAreKnown
<1>7. \A k \in Screens : InFront(k)' => KnowsTheOthers(hook'[k].draft)
  BY <1>1, <1>2
<1> QED
  BY <1>1, <1>4, <1>5, <1>6, <1>7 DEF OthersAreKnown, KnowsTheOthers, Pending, Requested, Saving

\* What a step that writes has to keep.
LEMMA WrittenKeeps ==
  ASSUME IntakeInvariant, IntakeShape', IntakeOrder', ReviewsSubmit',
         NEW i \in Screens, NEW d, NEW w, Writes(i, d, w),
         Empties(d), d.id <= drafts', drafts <= drafts',
         attempt'[i].draft \in {d, attempt[i].draft},
         OfOneDraft(i, d),
         \A e \in Nat \ {0} : e \notin astray /\ OnItsWayOnce(e) /\ (OnItsWay(e) => LockedOnItsWay(e)) =>
           OnItsWayOnce(e)' /\ (OnItsWay(e)' => LockedOnItsWay(e)'),
         astray = {} =>
           /\ OfLatest(i, d) /\ KnowsTheOthers(d)
           /\ InChain(i)' => KnowsTheOthers(attempt'[i].draft)
  PROVE  IntakeInvariant'
<1>1. /\ UNCHANGED <<stored, stack, wire, requests, astray>> /\ d \in IntakeDrafts
      /\ hook'[i].draft = d /\ hook'[i].ready = hook[i].ready
      /\ \A j \in Screens : j # i => hook'[j] = hook[j] /\ attempt'[j] = attempt[j]
  BY DEF Writes
<1>2. IntakeShape /\ OneDraftIsWritten /\ LateReads /\ DraftsAreFilled /\ IdsAreCounted /\ 0 \in {0, 1}
  BY DEF IntakeInvariant
<1>3. /\ NoReadBegun(0)
      /\ \A n \in DOMAIN io' : io'[n].draft = d \/ \E m \in DOMAIN io : io'[n].draft = io[m].draft
  BY <1>2, WritesAre
<1>4. LateReads'
  <2>1. \A k \in Screens : InFront(k)' /\ hook'[k].ready => InFront(k) /\ hook[k].ready
    <3>1. \A k : InFront(k)' <=> InFront(k)
      BY <1>1 DEF InFront
    <3>2. \A k \in Screens : hook'[k].ready = hook[k].ready
      BY <1>1
    <3> QED
      BY <3>1, <3>2
  <2> QED
    BY <1>2, <1>3, <2>1, ReadsKeep
<1>5. DraftsAreFilled' /\ IdsAreCounted'
  <2>1. Drafted(d)
    BY <1>1, <1>3 DEF Drafted
  <2> QED
    BY <1>1, <1>2, <2>1, IdsKeep
<1>6. OneDraftIsWritten'
  BY <1>2, WritesOneDraft
<1>7. Tokens'
  <2> SUFFICES ASSUME NEW e \in Nat \ {0}, e \notin astray'
               PROVE  OnItsWayOnce(e)' /\ (OnItsWay(e)' => LockedOnItsWay(e)')
    BY DEF Tokens
  <2>1. OnItsWayOnce(e) /\ (OnItsWay(e) => LockedOnItsWay(e)) /\ e \notin astray
    BY <1>1 DEF IntakeInvariant, Tokens
  <2> QED
    BY <2>1
<1>8. Undisturbed'
  <2> SUFFICES ASSUME astray' = {}
               PROVE  LatestDraft' /\ OthersAreKnown' /\ FrontIsWritten'
    BY DEF Undisturbed
  <2>1. astray = {}
    BY <1>1
  <2>2. LatestDraft /\ OthersAreKnown
    BY <2>1 DEF IntakeInvariant, Undisturbed
  <2>3. LatestDraft'
    BY <1>2, <2>1, <2>2, WritesLatest
  <2>4. OthersAreKnown'
    BY <1>2, <2>1, <2>2, WritesOthers
  <2>5. FrontIsWritten'
    BY <1>2, WritesFront
  <2> QED
    BY <2>3, <2>4, <2>5
<1> QED
  BY <1>4, <1>5, <1>6, <1>7, <1>8 DEF IntakeInvariant

-----------------------------------------------------------------------------
\* What the screen in front can use is of the one draft there is.
LEMMA ShownIsOfOne ==
  ASSUME IntakeInvariant, NEW i \in Screens, InFront(i), hook[i].ready
  PROVE  /\ OfDraft(stored.id, hook[i].draft.id)
         /\ \A n \in DOMAIN io : Saving(n) => OfDraft(io[n].draft.id, hook[i].draft.id)
BY DEF IntakeInvariant, OneDraftIsWritten

\* What the screen in front has unlocked is not on its way.
LEMMA ShownIsFree ==
  ASSUME NEW i \in Screens, InFront(i), hook[i].ready, ~Locked(hook[i].draft),
         NEW e, LockedOnItsWay(e)
  PROVE  hook[i].draft.id # e
BY DEF LockedOnItsWay

\* A draft not begun is not on its way.
LEMMA NextIsFree ==
  ASSUME IntakeInvariant, NEW e \in Nat, e > drafts
  PROVE  ~OnItsWay(e)
<1>1. /\ \A p \in wire : p.draft.id <= drafts /\ \A r \in DOMAIN requests : requests[r].draft <= drafts
      /\ \A j \in Screens : attempt[j].draft.id <= drafts
  BY DEF IntakeInvariant, IdsAreCounted
<1>2. \A r \in DOMAIN requests : requests[r].draft <= drafts
  BY DEF IntakeInvariant, IdsAreCounted
<1>3. drafts \in Nat /\ ~(e <= drafts)
  BY DEF IntakeInvariant, IntakeShape
<1> QED
  BY <1>1, <1>2, <1>3 DEF OnItsWay, Posted, Requested, Holds

\* The customer enters something, or has the draft written again.
LEMMA EnteringKeeps ==
  ASSUME IntakeInvariant, IntakeShape', IntakeOrder', NEW i \in Screens, NEW d, Writes(i, d, FALSE),
         hook[i].ready, attempt' = attempt, Empties(d), Locked(d) <=> Locked(hook[i].draft),
         astray = {} => d.id # 0 /\ KnowsTheOthers(d),
         \/ d.id = hook[i].draft.id /\ drafts' = drafts
         \/ /\ hook[i].draft.id = 0 /\ drafts' = drafts + 1 /\ d.id = drafts'
            /\ hook[i].kind = "edit" /\ ~Locked(d)
  PROVE  IntakeInvariant'
<1>1. InFront(i) /\ IntakeShape /\ IntakeOrder /\ drafts \in Nat /\ ReviewsSubmit
  BY DEF IntakeInvariant, IntakeShape, Writes
<1>2. /\ OfDraft(stored.id, hook[i].draft.id)
      /\ \A n \in DOMAIN io : Saving(n) => OfDraft(io[n].draft.id, hook[i].draft.id)
  BY <1>1, ShownIsOfOne
<1>3. \A x : OfDraft(x, hook[i].draft.id) => OfDraft(x, d.id) /\ Same(d.id, x) /\ Same(x, d.id)
  BY DEF OfDraft, Same
<1>4. ReviewsSubmit'
  <2>1. \A j \in Screens : hook'[j].kind = hook[j].kind
    BY DEF Writes
  <2> QED
    BY <1>1, <2>1 DEF ReviewsSubmit
<1>5. d.id <= drafts' /\ drafts <= drafts'
  <2>1. hook[i].draft.id <= drafts
    BY DEF IntakeInvariant, IdsAreCounted
  <2> QED
    BY <1>1, <2>1
<1>6. OfOneDraft(i, d)
  <2>1. ASSUME hook[i].kind = "review", attempt[i].stage \notin Resting
        PROVE  /\ OfDraft(stored.id, attempt[i].draft.id)
               /\ OfDraft(d.id, attempt[i].draft.id)
               /\ \A n \in DOMAIN io : Saving(n) => OfDraft(io[n].draft.id, attempt[i].draft.id)
    <3>1. d.id = hook[i].draft.id
      BY <2>1
    <3>2. OneDraftIsWritten
      BY DEF IntakeInvariant
    <3> QED
      BY <1>1, <2>1, <3>1, <3>2 DEF OneDraftIsWritten, Resting
  <2> QED
    BY <1>2, <1>3, <2>1 DEF OfOneDraft
<1>7. ASSUME NEW e \in Nat \ {0}, OnItsWayOnce(e), OnItsWay(e) => LockedOnItsWay(e)
      PROVE  OnItsWayOnce(e)' /\ (OnItsWay(e)' => LockedOnItsWay(e)')
  <2>1. ASSUME OnItsWay(e), d.id = e
        PROVE  Locked(d)
    <3>1. CASE d.id = hook[i].draft.id
      BY <1>1, <1>7, <2>1, <3>1, ShownIsFree
    <3>2. CASE d.id = drafts' /\ drafts' = drafts + 1
      BY <1>1, <2>1, <3>2, NextIsFree
    <3> QED
      BY <3>1, <3>2
  <2>2. (Holds(i, e)' <=> Holds(i, e)) /\ (Submits(i, e)' <=> Submits(i, e))
    BY DEF Holds, Submits
  <2>3. hook[i].kind = "review" /\ attempt'[i].stage \in {"noting", "noted"} /\ OnItsWay(e) =>
          attempt'[i].draft.id # e
    <3>1. Mounted(i)
      BY <1>1, Fronts
    <3> QED
      BY <1>7, <3>1 DEF LockedOnItsWay
  <2> QED
    BY <1>1, <1>7, <2>1, <2>2, <2>3, WritesTokens
<1>8. ASSUME astray = {}
      PROVE  /\ OfLatest(i, d) /\ KnowsTheOthers(d)
             /\ InChain(i)' => KnowsTheOthers(attempt'[i].draft)
  <2>1. LatestDraft /\ OthersAreKnown /\ d.id # 0 /\ KnowsTheOthers(d)
    BY <1>8 DEF IntakeInvariant, Undisturbed
  <2>2. ~Requested(d.id) => d.id = drafts'
    BY <1>1, <2>1 DEF LatestDraft, Pending
  <2>3. drafts' = drafts \/ (stored.id = 0 /\ \A n \in DOMAIN io : ~Saving(n))
    BY <1>2, <2>1 DEF LatestDraft, OfDraft
  <2>4. (hook[i].kind = "review" \/ Locked(d)) /\ ~Requested(d.id) => stored.id = d.id
    BY <1>1, <2>1 DEF LatestDraft, Pending
  <2>5. InChain(i) /\ ~Requested(attempt[i].draft.id) =>
          attempt[i].draft.id = 0 \/ stored.id = attempt[i].draft.id
    BY <2>1 DEF LatestDraft, Pending
  <2>6. attempt[i].stage \in {"noting", "noted", "saving", "posting", "refused"}
          /\ ~Requested(attempt[i].draft.id) => attempt[i].draft.id \in {0, d.id}
    BY <1>1, <2>1 DEF LatestDraft, Pending
  <2>7. attempt[i].stage \in {"created", "clearing", "settling"} => Requested(attempt[i].draft.id)
    BY <2>1 DEF LatestDraft
  <2>8. InChain(i)' <=> InChain(i)
    BY DEF InChain
  <2>9. InChain(i) => KnowsTheOthers(attempt[i].draft)
    BY <2>1 DEF OthersAreKnown
  <2> QED
    BY <2>1, <2>2, <2>3, <2>4, <2>5, <2>6, <2>7, <2>8, <2>9 DEF OfLatest
<1>9. attempt'[i].draft \in {d, attempt[i].draft}
  OBVIOUS
<1> QED
  BY <1>4, <1>5, <1>6, <1>7, <1>8, <1>9, WrittenKeeps

LEMMA ChangeKeeps ==
  ASSUME IntakeInvariant, NEW i \in Screens, NEW text \in Texts, Change(i, text)
  PROVE  IntakeInvariant'
<1>1. IntakeShape /\ IntakeOrder /\ drafts \in Nat
  BY DEF IntakeInvariant, IntakeShape
<1>2. IntakeShape' /\ IntakeOrder'
  BY <1>1, ChangeOrders
<1>3. PICK d : d = Entered(i, text)
  OBVIOUS
<1>4. /\ Writes(i, d, FALSE)
      /\ hook[i].kind = "edit" /\ hook[i].ready /\ ~Locked(hook[i].draft) /\ attempt' = attempt
      /\ d.submission = hook[i].draft.submission
      /\ hook[i].draft.id = 0 => d.id = drafts + 1 /\ drafts' = drafts + 1
      /\ hook[i].draft.id # 0 => d.id = hook[i].draft.id /\ drafts' = drafts
  BY <1>1, <1>3, ChangeIs
<1>5. d.id # 0 /\ ~Locked(d)
  BY <1>1, <1>4 DEF Locked
<1>6. Empties(d) /\ KnowsTheOthers(d)
  BY <1>5 DEF Empties, KnowsTheOthers
<1> QED
  BY <1>2, <1>4, <1>5, <1>6, EnteringKeeps

LEMMA RetrySaveKeeps ==
  ASSUME IntakeInvariant, NEW i \in Screens, RetrySave(i)
  PROVE  IntakeInvariant'
<1>1. IntakeShape /\ IntakeOrder
  BY DEF IntakeInvariant
<1>2. IntakeShape' /\ IntakeOrder'
  BY <1>1, RetrySaveOrders
<1>3. PICK d : d = hook[i].draft
  OBVIOUS
<1>4. /\ Writes(i, d, FALSE) /\ hook[i].ready /\ hook[i].error /\ attempt' = attempt
      /\ drafts' = drafts
  BY <1>1, <1>3, RetrySaveIs
<1>5. Empties(d) /\ InFront(i)
  BY <1>3, <1>4 DEF IntakeInvariant, DraftsAreFilled, Writes
<1>6. astray = {} => d.id # 0 /\ KnowsTheOthers(d)
  BY <1>3, <1>4, <1>5 DEF IntakeInvariant, Undisturbed, LatestDraft, OthersAreKnown
<1> QED
  BY <1>2, <1>3, <1>4, <1>5, <1>6, EnteringKeeps

LEMMA PressWritesKeeps ==
  ASSUME IntakeInvariant, NEW i \in Screens, Press(i), ~Locked(hook[i].draft)
  PROVE  IntakeInvariant'
<1>1. IntakeShape /\ IntakeOrder /\ ReviewsSubmit
  BY DEF IntakeInvariant
<1>2. IntakeShape' /\ IntakeOrder'
  BY <1>1, PressOrders
<1>3. PICK d : d = hook[i].draft
  OBVIOUS
<1>4. /\ Writes(i, d, TRUE) /\ InFront(i)
      /\ hook[i].ready /\ UNCHANGED <<hook, drafts>>
      /\ Complete(d) /\ attempt[i].stage = "idle"
      /\ attempt'[i].stage = "noting" /\ attempt'[i].draft = d
      /\ \A j \in Screens : j # i => attempt'[j] = attempt[j]
  BY <1>1, <1>3, PressIs DEF Writes
<1>5. Empties(d) /\ d.id <= drafts /\ drafts \in Nat
  BY <1>3 DEF IntakeInvariant, IntakeShape, DraftsAreFilled, IdsAreCounted
<1>6. d.id # 0
  BY <1>4, <1>5, FilledIn
<1>7. ReviewsSubmit'
  BY <1>1, <1>3, <1>4 DEF ReviewsSubmit
<1>8. OfOneDraft(i, d)
  <2>1. /\ OfDraft(stored.id, d.id)
        /\ \A n \in DOMAIN io : Saving(n) => OfDraft(io[n].draft.id, d.id)
    BY <1>3, <1>4, ShownIsOfOne
  <2>2. \A x : OfDraft(x, d.id) => Same(d.id, x) /\ Same(x, d.id)
    BY DEF OfDraft, Same
  <2>3. OfDraft(d.id, d.id)
    BY DEF OfDraft
  <2> QED
    BY <1>4, <2>1, <2>2, <2>3 DEF OfOneDraft
<1>9. ASSUME NEW e \in Nat \ {0}, OnItsWayOnce(e), OnItsWay(e) => LockedOnItsWay(e)
      PROVE  OnItsWayOnce(e)' /\ (OnItsWay(e)' => LockedOnItsWay(e)')
  <2>1. OnItsWay(e) => d.id # e
    BY <1>3, <1>4, <1>9, ShownIsFree
  <2>2. (Holds(i, e)' <=> Holds(i, e)) /\ (Submits(i, e)' <=> Submits(i, e))
    BY <1>4 DEF Holds, Submits
  <2> QED
    BY <1>1, <1>4, <1>9, <2>1, <2>2, WritesTokens
<1>10. ASSUME astray = {}
       PROVE  /\ OfLatest(i, d) /\ KnowsTheOthers(d)
              /\ InChain(i)' => KnowsTheOthers(attempt'[i].draft)
  <2>1. LatestDraft /\ OthersAreKnown
    BY <1>10 DEF IntakeInvariant, Undisturbed
  <2>2. ~Requested(d.id) =>
          d.id = drafts /\ (hook[i].kind = "review" \/ Locked(d) => stored.id = d.id)
    BY <1>3, <1>4, <1>6, <2>1 DEF LatestDraft, Pending
  <2>3. KnowsTheOthers(d) /\ ~InChain(i)'
    BY <1>3, <1>4 DEF KnowsTheOthers, InChain
  <2> QED
    BY <1>4, <1>6, <2>2, <2>3 DEF OfLatest, InChain
<1>11. d.id <= drafts' /\ drafts <= drafts' /\ attempt'[i].draft \in {d, attempt[i].draft}
  BY <1>4, <1>5
<1> QED
  BY <1>2, <1>4, <1>5, <1>7, <1>8, <1>9, <1>10, <1>11, WrittenKeeps

\* The button of the review is at work for the one draft there is.
LEMMA ReviewedIsOne ==
  ASSUME IntakeInvariant, NEW i \in Screens, Mounted(i), hook[i].kind = "review",
         attempt[i].stage \in {"noted", "refused"}
  PROVE  /\ InFront(i) /\ OfDraft(stored.id, attempt[i].draft.id)
         /\ OfDraft(hook[i].draft.id, attempt[i].draft.id)
         /\ \A n \in DOMAIN io : Saving(n) => OfDraft(io[n].draft.id, attempt[i].draft.id)
<1>1. InFront(i)
  BY DEF IntakeInvariant, IntakeOrder, OnlyFrontWorks, Busy
<1>2. OneDraftIsWritten
  BY DEF IntakeInvariant
<1> QED
  BY <1>1, <1>2 DEF OneDraftIsWritten

\* What is about to be submitted or was refused is the latest draft and stored.
LEMMA ReviewedIsLatest ==
  ASSUME IntakeInvariant, astray = {}, NEW i \in Screens, InFront(i),
         attempt[i].stage \in {"noted", "refused"}, Pending(attempt[i].draft)
  PROVE  /\ stored.id = attempt[i].draft.id /\ hook[i].draft.id = attempt[i].draft.id
         /\ attempt[i].draft.id = drafts
<1>1. LatestDraft
  BY DEF IntakeInvariant, Undisturbed
<1>2. stored.id = attempt[i].draft.id /\ hook[i].draft.id = attempt[i].draft.id
  BY <1>1 DEF LatestDraft, InChain
<1>3. Pending(stored)
  BY <1>2 DEF Pending
<1> QED
  BY <1>1, <1>2, <1>3 DEF LatestDraft

\* What is about to be submitted is on its way from then on, and only there.
LEMMA SubmissionIsOnce ==
  ASSUME IntakeInvariant, NEW i \in Screens, NEW d, Writes(i, d, TRUE),
         Mounted(i), hook[i].kind = "review", attempt[i].stage = "noted", attempt'[i].stage = "saving",
         attempt'[i].draft = d, Locked(d), ~OnItsWay(d.id)
  PROVE  OnItsWayOnce(d.id)' /\ LockedOnItsWay(d.id)'
<1>1. IntakeShape /\ IntakeOrder /\ InFront(i)
  BY DEF IntakeInvariant, Writes
<1>2. /\ UNCHANGED <<stored, stack, wire, requests>>
      /\ hook'[i].draft = d
      /\ \A j \in Screens : j # i => attempt'[j] = attempt[j]
  BY DEF Writes
<1>3. PICK e : e = d.id
  OBVIOUS
<1>4. ~Posted(e) /\ ~Requested(e) /\ \A j \in Screens : ~Holds(j, e)
  BY <1>3 DEF OnItsWay
<1>5. Holds(i, e)' /\ Submits(i, e)' /\ \A j \in Screens : Holds(j, e)' => j = i
  BY <1>2, <1>3, <1>4 DEF Holds, Submits
<1>6. ~Posted(e)' /\ ~Requested(e)'
  BY <1>2, <1>4 DEF Posted, Requested
<1>7. OnItsWayOnce(e)'
  BY <1>5, <1>6 DEF OnItsWayOnce, Posted, Requested
<1>8. LockedOnItsWay(e)'
  <2>1. ~(\A j \in Screens : ~(Holds(j, e) /\ attempt[j].stage = "saving"))'
    BY <1>5 DEF Submits
  <2>2. (\A m, n \in DOMAIN io :
           /\ Saving(m) /\ io[m].wakes /\ Holds(io[m].by, e) /\ m < n /\ Saving(n) /\ io[n].draft.id = e =>
              Locked(io[n].draft))'
    <3> SUFFICES ASSUME NEW m \in DOMAIN io', NEW n \in DOMAIN io', io'[m].op = "save", io'[m].wakes,
                        Holds(io[m].by, e)', m < n
                 PROVE  FALSE
      BY DEF Saving
    <3>1. io' \in Seq(Operations)
      BY DEF Writes, Longer
    <3>2. PICK j \in Screens : j = io'[m].by
      <4>1. io'[m] \in Operations
        BY <3>1
      <4> QED
        BY <4>1 DEF Operations
    <3>3. j = i
      <4>1. Holds(j, e)'
        BY <3>2 DEF Holds
      <4> QED
        BY <1>5, <4>1
    <3>4. m # Len(io')
      BY <3>1
    <3>5. m \in DOMAIN io /\ Saving(m) /\ io[m].wakes /\ io[m].by = i
      BY <1>1, <3>2, <3>3, <3>4, WritesAre
    <3> QED
      BY <1>1, <3>5 DEF IntakeOrder, OneIsAwaited
  <2>3. \A k : InFront(k)' => k = i
    <3>1. \A k : InFront(k) => k = i
      BY <1>1, Fronts
    <3> QED
      BY <1>2, <3>1 DEF InFront
  <2>4. ASSUME NEW k \in Screens, Mounted(k)', attempt'[k].stage \in {"noting", "noted"}
        PROVE  FALSE
    <3>1. k # i /\ attempt'[k] = attempt[k] /\ Mounted(k)
      BY <1>2, <2>4 DEF Mounted
    <3>2. InFront(k)
      BY <1>1, <2>4, <3>1 DEF IntakeOrder, OnlyFrontWorks, Busy
    <3> QED
      BY <1>1, <3>1, <3>2, Fronts
  <2> QED
    BY <1>2, <2>1, <2>2, <2>3, <2>4 DEF LockedOnItsWay
<1> QED
  BY <1>3, <1>7, <1>8

LEMMA ListingWritesKeeps ==
  ASSUME IntakeInvariant, NEW i \in Screens, ListExisting(i), Mounted(i)
  PROVE  IntakeInvariant'
<1>1. IntakeShape /\ IntakeOrder /\ ReviewsSubmit
  BY DEF IntakeInvariant
<1>2. IntakeShape' /\ IntakeOrder'
  BY <1>1, ListingOrders
<1>3. PICK d : d = Submitting(i)
  OBVIOUS
<1>4. /\ Writes(i, d, TRUE)
      /\ attempt[i].stage = "noted" /\ attempt'[i].stage = "saving" /\ attempt'[i].draft = d
      /\ drafts' = drafts
  BY <1>1, <1>3, ListingWrites DEF IntakeOrder
<1>5. /\ hook'[i].draft = d
      /\ \A j \in Screens : j # i => attempt'[j] = attempt[j]
      /\ \A j \in Screens : hook'[j].kind = hook[j].kind
  BY <1>4 DEF Writes
<1>6. /\ d.id = attempt[i].draft.id
      /\ d.submission = [text |-> attempt[i].draft.text, existing |-> DOMAIN requests]
  BY <1>1, <1>3, SubmittingIs
<1>7. /\ Complete(attempt[i].draft) /\ Empties(attempt[i].draft) /\ hook[i].kind = "review"
      /\ attempt[i].draft.id <= drafts /\ drafts \in Nat
  BY <1>4 DEF IntakeInvariant, IntakeShape, ReviewsSubmit, DraftsAreFilled, IdsAreCounted
<1>8. d.id # 0 /\ Locked(d)
  <2>1. d.id # 0
    BY <1>6, <1>7, FilledIn
  <2>2. d.submission.text # NoText
    BY <1>6, <1>7 DEF Complete
  <2> QED
    BY <2>1, <2>2 DEF Locked, NoSubmission
<1>9. /\ InFront(i) /\ OfDraft(stored.id, d.id) /\ OfDraft(hook[i].draft.id, d.id)
      /\ \A n \in DOMAIN io : Saving(n) => OfDraft(io[n].draft.id, d.id)
  BY <1>4, <1>6, <1>7, ReviewedIsOne
<1>10. ReviewsSubmit'
  BY <1>1, <1>4, <1>5, <1>7, <1>8 DEF ReviewsSubmit
<1>11. OfOneDraft(i, d)
  <2>1. \A x : OfDraft(x, d.id) => Same(d.id, x) /\ Same(x, d.id)
    BY DEF OfDraft, Same
  <2>2. OfDraft(d.id, d.id)
    BY DEF OfDraft
  <2> QED
    BY <1>4, <1>9, <2>1, <2>2 DEF OfOneDraft
<1>12. ASSUME NEW e \in Nat \ {0}, OnItsWayOnce(e), OnItsWay(e) => LockedOnItsWay(e)
       PROVE  OnItsWayOnce(e)' /\ (OnItsWay(e)' => LockedOnItsWay(e)')
  <2>1. CASE e = d.id
    <3>1. ~OnItsWay(e)
      BY <1>4, <1>6, <1>7, <1>12, <2>1 DEF LockedOnItsWay
    <3> QED
      BY <1>4, <1>7, <1>8, <2>1, <3>1, SubmissionIsOnce
  <2>2. CASE e # d.id
    <3>1. (Holds(i, e)' <=> Holds(i, e)) /\ (Submits(i, e)' <=> Submits(i, e))
      BY <1>4, <1>6, <2>2 DEF Holds, Submits
    <3>2. attempt'[i].stage \notin {"noting", "noted"}
      BY <1>4
    <3> QED
      BY <1>1, <1>4, <1>12, <2>2, <3>1, <3>2, WritesTokens
  <2> QED
    BY <2>1, <2>2
<1>13. ASSUME astray = {}
       PROVE  /\ OfLatest(i, d) /\ KnowsTheOthers(d)
              /\ InChain(i)' => KnowsTheOthers(attempt'[i].draft)
  <2>1. KnowsTheOthers(d)
    BY <1>6 DEF KnowsTheOthers
  <2>2. ~Requested(d.id) => d.id = drafts' /\ stored.id = d.id
    BY <1>4, <1>6, <1>8, <1>9, <1>13, ReviewedIsLatest DEF Pending
  <2> QED
    BY <1>4, <1>8, <2>1, <2>2 DEF OfLatest
<1>14. /\ d.id <= drafts' /\ drafts <= drafts' /\ attempt'[i].draft \in {d, attempt[i].draft}
       /\ Empties(d)
  BY <1>4, <1>6, <1>7, <1>8 DEF Empties
<1> QED
  BY <1>2, <1>4, <1>10, <1>11, <1>12, <1>13, <1>14, WrittenKeeps

LEMMA RejectWritesKeeps ==
  ASSUME IntakeInvariant, NEW i \in Screens, Reject(i), Mounted(i)
  PROVE  IntakeInvariant'
<1>1. IntakeShape /\ IntakeOrder /\ ReviewsSubmit
  BY DEF IntakeInvariant
<1>2. IntakeShape' /\ IntakeOrder'
  BY <1>1, RejectOrders
<1>3. PICK d : d = Undoing(i)
  OBVIOUS
<1>4. /\ Writes(i, d, TRUE)
      /\ attempt[i].stage = "refused" /\ attempt'[i].stage = "undoing"
      /\ attempt'[i].draft = attempt[i].draft /\ drafts' = drafts
  BY <1>1, <1>3, RejectWrites DEF IntakeOrder
<1>5. /\ UNCHANGED <<wire, requests>>
      /\ \A j \in Screens : j # i => attempt'[j] = attempt[j]
      /\ \A j \in Screens : hook'[j].kind = hook[j].kind
  BY <1>4 DEF Writes
<1>6. d.id = hook[i].draft.id /\ ~Locked(d)
  BY <1>1, <1>3, UndoingIs
<1>7. /\ Locked(attempt[i].draft) /\ Empties(attempt[i].draft) /\ hook[i].kind = "review"
      /\ Empties(hook[i].draft) /\ hook[i].draft.id <= drafts /\ drafts \in Nat
  BY <1>4 DEF IntakeInvariant, IntakeShape, ReviewsSubmit, DraftsAreFilled, IdsAreCounted
<1>8. attempt[i].draft.id # 0
  BY <1>7, FilledIn
<1>9. Empties(d)
  BY <1>3, <1>6, <1>7 DEF Empties, Undoing, EmptyDraft
<1>10. PICK a : a = attempt[i].draft.id
  OBVIOUS
<1>11. /\ InFront(i) /\ OfDraft(stored.id, a) /\ OfDraft(d.id, a)
       /\ \A n \in DOMAIN io : Saving(n) => OfDraft(io[n].draft.id, a)
  BY <1>4, <1>6, <1>7, <1>10, ReviewedIsOne
<1>12. ReviewsSubmit'
  BY <1>1, <1>4, <1>5, <1>7 DEF ReviewsSubmit
<1>13. OfOneDraft(i, d)
  <2>1. \A x, y : OfDraft(x, a) /\ OfDraft(y, a) => Same(x, y)
    BY DEF OfDraft, Same
  <2>2. hook[i].ready =>
          /\ OfDraft(stored.id, d.id)
          /\ \A n \in DOMAIN io : Saving(n) => OfDraft(io[n].draft.id, d.id)
    BY <1>6, <1>11, ShownIsOfOne
  <2> QED
    BY <1>4, <1>10, <1>11, <2>1, <2>2 DEF OfOneDraft
<1>14. ASSUME NEW e \in Nat \ {0}, OnItsWayOnce(e), OnItsWay(e) => LockedOnItsWay(e)
       PROVE  OnItsWayOnce(e)' /\ (OnItsWay(e)' => LockedOnItsWay(e)')
  <2>1. CASE e = a
    <3>1. Holds(i, e)
      BY <1>4, <1>10, <2>1 DEF Holds
    <3>2. ~Posted(e) /\ ~Requested(e) /\ \A j \in Screens : Holds(j, e) => j = i
      BY <1>14, <3>1 DEF OnItsWayOnce
    <3>3. ~Posted(e)' /\ ~Requested(e)'
      BY <1>5, <3>2 DEF Posted, Requested
    <3>4. \A j \in Screens : ~Holds(j, e)'
      BY <1>4, <1>5, <3>2 DEF Holds
    <3> QED
      BY <3>3, <3>4 DEF OnItsWayOnce, OnItsWay, Posted, Requested
  <2>2. CASE e # a
    <3>1. (Holds(i, e)' <=> Holds(i, e)) /\ (Submits(i, e)' <=> Submits(i, e))
      BY <1>4, <1>10, <2>2 DEF Holds, Submits
    <3>2. d.id # e /\ attempt'[i].stage \notin {"noting", "noted"}
      BY <1>4, <1>11, <2>2 DEF OfDraft
    <3> QED
      BY <1>1, <1>4, <1>14, <3>1, <3>2, WritesTokens
  <2> QED
    BY <2>1, <2>2
<1>15. ASSUME astray = {}
       PROVE  /\ OfLatest(i, d) /\ KnowsTheOthers(d)
              /\ InChain(i)' => KnowsTheOthers(attempt'[i].draft)
  <2>1. KnowsTheOthers(d) /\ ~InChain(i)'
    BY <1>4, <1>6 DEF KnowsTheOthers, InChain
  <2>2. ~Requested(a)
    <3>1. a \in Nat \ {0}
      BY <1>1, <1>8, <1>10 DEF IntakeShape, IntakeDrafts
    <3>2. OnItsWayOnce(a)
      BY <1>15, <3>1 DEF IntakeInvariant, Tokens
    <3> QED
      BY <1>4, <1>10, <3>2 DEF OnItsWayOnce, Holds
  <2>3. Pending(attempt[i].draft)
    BY <1>8, <1>10, <2>2 DEF Pending
  <2>4. d.id = a /\ stored.id = a /\ a = drafts
    BY <1>4, <1>6, <1>10, <1>11, <1>15, <2>3, ReviewedIsLatest
  <2> QED
    BY <1>4, <1>8, <1>10, <2>1, <2>4 DEF OfLatest, InChain
<1>16. /\ d.id <= drafts' /\ drafts <= drafts' /\ attempt'[i].draft \in {d, attempt[i].draft}
  BY <1>4, <1>6, <1>7
<1> QED
  BY <1>2, <1>4, <1>9, <1>12, <1>13, <1>14, <1>15, <1>16, WrittenKeeps

-----------------------------------------------------------------------------
LEMMA IntakeBegins == IntakeInit => IntakeInvariant
<1> SUFFICES ASSUME IntakeInit
             PROVE  IntakeInvariant
  OBVIOUS
<1>1. /\ stored = EmptyDraft /\ io = <<>> /\ stack = <<>> /\ opened = 0
      /\ wire = {} /\ requests = <<>> /\ astray = {} /\ drafts = 0
      /\ DOMAIN io = {} /\ DOMAIN stack = {} /\ DOMAIN requests = {}
  BY DEF IntakeInit
<1>2. EmptyDraft \in IntakeDrafts /\ EmptyDraft.id = 0 /\ ~Locked(EmptyDraft)
  BY EmptyIsDraft
<1>3. /\ \A i \in Screens : hook[i] = NoHook /\ attempt[i] = NoAttempt
      /\ NoHook.draft = EmptyDraft /\ ~NoHook.ready /\ NoHook.kind = "edit"
      /\ NoAttempt.draft = EmptyDraft /\ NoAttempt.stage = "idle"
  BY DEF IntakeInit, NoHook, NoAttempt
<1>4. NoHook \in HookRows /\ NoAttempt \in AttemptRows
  BY <1>2 DEF NoHook, NoAttempt, HookRows, AttemptRows, Stages
<1>5. IntakeShape
  BY <1>1, <1>2, <1>4 DEF IntakeShape, IntakeInit, AttemptRows
<1>6. \A i \in Screens : ~Busy(i) /\ ~InFront(i)
  BY <1>1, <1>3 DEF Busy, InFront
<1>7. IntakeOrder
  BY <1>1, <1>3, <1>6 DEF IntakeOrder, StackGrows, OnlyFrontWorks, LoadsOfTheFront,
     WritesComeFirst,
     OneIsAwaited, HeardPosts
<1>8. LateReads
  BY <1>1 DEF LateReads
<1>9. DraftsAreFilled /\ ReviewsSubmit
  BY <1>1, <1>2, <1>3 DEF DraftsAreFilled, ReviewsSubmit, Empties
<1>10. IdsAreCounted
  BY <1>1, <1>2, <1>3 DEF IdsAreCounted
<1>11. OneDraftIsWritten
  BY <1>1, <1>6 DEF OneDraftIsWritten
<1>12. Tokens
  <2>1. \A d : ~Posted(d) /\ ~Requested(d) /\ \A i \in Screens : ~Holds(i, d)
    BY <1>1, <1>3 DEF Posted, Requested, Holds
  <2> QED
    BY <1>1, <2>1 DEF Tokens, OnItsWayOnce, OnItsWay
<1>13. LatestDraft
  BY <1>1, <1>2, <1>3, <1>6 DEF LatestDraft, Pending, InChain
<1>14. OthersAreKnown /\ FrontIsWritten
  BY <1>1, <1>2, <1>3, <1>6 DEF OthersAreKnown, KnowsTheOthers, FrontIsWritten, InChain
<1> QED
  BY <1>5, <1>7, <1>8, <1>9, <1>10, <1>11, <1>12, <1>13, <1>14 DEF IntakeInvariant, Undisturbed

LEMMA StutterKeeps ==
  ASSUME IntakeInvariant, UNCHANGED intakeVars
  PROVE  IntakeInvariant'
<1>1. /\ stored' = stored /\ io' = io /\ stack' = stack /\ opened' = opened /\ hook' = hook
      /\ attempt' = attempt /\ wire' = wire /\ requests' = requests /\ astray' = astray
      /\ drafts' = drafts
  BY DEF intakeVars
<1>2. IntakeShape'
  BY <1>1 DEF IntakeInvariant, IntakeShape
<1>3. StackGrows' /\ OnlyFrontWorks' /\ LoadsOfTheFront' /\ WritesComeFirst'
  BY <1>1 DEF IntakeInvariant, IntakeOrder, StackGrows, OnlyFrontWorks, LoadsOfTheFront,
     WritesComeFirst, Busy, Wanted, Saving, Mounted, InFront
<1>4. OneIsAwaited' /\ HeardPosts'
  BY <1>1 DEF IntakeInvariant, IntakeOrder, OneIsAwaited, HeardPosts, Awaited, Saving
<1>5. Settles(0) /\ LateReads' /\ ReadsDrafts /\ (astray = {} => ErrorsSettle(0))
  BY <1>1, <1>2, StandsStill
<1> QED
  BY <1>1, <1>2, <1>3, <1>4, <1>5, QuietKeeps DEF IntakeOrder

LEMMA IntakeKeeps == IntakeInvariant /\ [IntakeStep]_intakeVars => IntakeInvariant'
<1> SUFFICES ASSUME IntakeInvariant, [IntakeStep]_intakeVars
             PROVE  IntakeInvariant'
  OBVIOUS
<1>1. CASE Open \/ Back \/ EndLoad \/ FailSave \/ EndClear \/ FailClear \/ Kill
  BY <1>1, OpenKeeps, BackKeeps, EndLoadKeeps, FailSaveKeeps, EndClearKeeps, FailClearKeeps,
     KillKeeps
<1>2. CASE EndSave
  BY <1>2, EndSaveKeeps, ContinueKeeps
<1>3. ASSUME NEW i \in Screens, Refocus(i) \/ RetrySave(i) \/ FailListing(i) \/ LosePost(i)
      PROVE  IntakeInvariant'
  BY <1>3, RefocusKeeps, RetrySaveKeeps, FailListingKeeps, LosePostKeeps
<1>4. ASSUME NEW i \in Screens, Finish(i) \/ Check(i) \/ FailCheck(i)
      PROVE  IntakeInvariant'
  BY <1>4, FinishKeeps, CheckKeeps, FailCheckKeeps
<1>5. ASSUME NEW i \in Screens, Press(i)
      PROVE  IntakeInvariant'
  BY <1>5, PressChecksKeeps, PressWritesKeeps
<1>6. ASSUME NEW i \in Screens, ListExisting(i)
      PROVE  IntakeInvariant'
  BY <1>6, ListingLeftKeeps, ListingWritesKeeps
<1>7. ASSUME NEW i \in Screens, Reject(i)
      PROVE  IntakeInvariant'
  BY <1>7, RejectLeftKeeps, RejectWritesKeeps
<1>8. ASSUME NEW i \in Screens, NEW text \in Texts, Change(i, text)
      PROVE  IntakeInvariant'
  BY <1>8, ChangeKeeps
<1>9. ASSUME NEW post \in wire, ServePost(post)
      PROVE  IntakeInvariant'
  BY <1>9, ServePostKeeps
<1>10. CASE UNCHANGED intakeVars
  BY <1>10, StutterKeeps
<1> QED
  BY <1>1, <1>2, <1>3, <1>4, <1>5, <1>6, <1>7, <1>8, <1>9, <1>10 DEF IntakeStep

LEMMA IntakeIsKept == ServiceSpec => []IntakeInvariant
<1>1. ServiceInit => IntakeInvariant
  BY IntakeBegins DEF ServiceInit
<1>2. IntakeInvariant /\ [ServiceNext]_serviceVars => IntakeInvariant'
  <2>1. [ServiceNext]_serviceVars => [IntakeStep]_intakeVars
    BY DEF ServiceNext, serviceVars
  <2> QED
    BY <2>1, IntakeKeeps
<1> QED
  BY <1>1, <1>2, PTL DEF ServiceSpec

LEMMA OneRequestEach == IntakeInvariant => NoDuplicateRequests
<1> SUFFICES ASSUME IntakeInvariant, NEW r \in DOMAIN requests, NEW s \in DOMAIN requests,
                    requests[r].draft = requests[s].draft, requests[r].draft \notin astray
             PROVE  r = s
  BY DEF NoDuplicateRequests
<1>1. PICK d : d = requests[r].draft
  OBVIOUS
<1>2. d # 0
  BY <1>1 DEF IntakeInvariant, DraftsAreFilled
<1>3. d \in Nat
  <2>1. requests \in Seq([draft: Nat, text: IntakeTexts])
    BY DEF IntakeInvariant, IntakeShape
  <2>2. requests[r] \in [draft: Nat, text: IntakeTexts]
    BY <2>1, ElementIs
  <2> QED
    BY <1>1, <2>2
<1>4. OnItsWayOnce(d)
  BY <1>1, <1>2, <1>3 DEF IntakeInvariant, Tokens
<1> QED
  BY <1>1, <1>4 DEF OnItsWayOnce

LEMMA LockedUntilRequested == IntakeInvariant => LockedWhileOnItsWay
<1> SUFFICES ASSUME IntakeInvariant, astray = {}, NEW post \in wire, ~Requested(post.draft.id)
             PROVE  stored.id = post.draft.id /\ Locked(stored)
  BY DEF LockedWhileOnItsWay, Requested
<1>1. PICK d : d = post.draft.id
  OBVIOUS
<1>2. d # 0
  <2>1. Locked(post.draft) /\ Empties(post.draft)
    BY DEF IntakeInvariant, DraftsAreFilled
  <2> QED
    BY <1>1, <2>1, FilledIn
<1>3. d \in Nat
  BY <1>1 DEF IntakeInvariant, IntakeShape, IntakeDrafts
<1>4. Posted(d)
  BY <1>1 DEF Posted
<1>5. OnItsWayOnce(d) /\ LockedOnItsWay(d)
  BY <1>2, <1>3, <1>4 DEF IntakeInvariant, Tokens, OnItsWay
<1>6. stored.id = d
  BY <1>1, <1>2 DEF IntakeInvariant, Undisturbed, LatestDraft, Pending
<1>7. \A i \in Screens : ~Holds(i, d)
  BY <1>4, <1>5 DEF OnItsWayOnce
<1> QED
  BY <1>1, <1>5, <1>6, <1>7 DEF LockedOnItsWay

LEMMA ShownUntilRequested == IntakeInvariant => ShownIsStored
<1> SUFFICES ASSUME IntakeInvariant, astray = {}, NEW i \in Screens, InFront(i), hook[i].ready,
                    io = <<>>, ~hook[i].error
             PROVE  hook[i].draft = stored \/ Requested(hook[i].draft.id)
  BY DEF ShownIsStored, Requested
<1>1. FrontIsWritten
  BY DEF IntakeInvariant, Undisturbed
<1>2. \A n \in DOMAIN io : ~Saving(n)
  OBVIOUS
<1> QED
  BY <1>1, <1>2 DEF FrontIsWritten

\* A draft becomes one request, is not edited while it may become one, and what the
\* screen shows of it is what is stored: for any number of screens, drafts, writes
\* waiting, lost messages, failed writes and kills.
THEOREM DraftsAreSubmittedOnce == ServiceSpec => []SubmittedOnce
<1>1. IntakeInvariant => SubmittedOnce
  BY OneRequestEach, LockedUntilRequested, ShownUntilRequested DEF SubmittedOnce
<1> QED
  BY IntakeIsKept, <1>1, PTL
=============================================================================
