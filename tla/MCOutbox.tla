------------------------------ MODULE MCOutbox ------------------------------
(* Outbox on a small instance: an event for a customer and one that also     *)
(* addresses the technician, handled by two workers.                         *)
EXTENDS Outbox

CONSTANTS paid, scheduled, customer, technician

RecipientsOf == [e \in Events |-> IF e = scheduled THEN {customer, technician} ELSE {customer}]
=============================================================================
