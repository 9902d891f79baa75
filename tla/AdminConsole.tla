---------------------------- MODULE AdminConsole ----------------------------
(***************************************************************************)
(* The dashboard at work: access and bookings (StaffRaces), the forms of   *)
(* records, the creation of records, the order's page and the assignment   *)
(* form.  They share no state, so a behaviour is of one of them: its desk. *)
(***************************************************************************)
EXTENDS StaffRaces, AdminRecords, AdminCreation, AdminDesk

VARIABLE at  \* the desk of this behaviour

Desks == {"staff", "records", "creation", "orders", "assignment"}

\* What a desk is not at stays as it starts.
ConsoleInit ==
  /\ at \in Desks
  /\ Init /\ RecordsInit /\ CreationInit /\ DeskInit
  /\ at = "records" \/ (record.picture = NoPicture /\ kind = CHOOSE k \in Kinds : TRUE)
  /\ at = "creation" \/ creating = CHOOSE k \in NewKinds : TRUE
  /\ at = "orders" \/ sale.state = "paid"
  /\ at = "assignment" \/ request.technician = CHOOSE t \in Staff : TRUE

At(d) == at = d /\ UNCHANGED at

StaffStep == At("staff") /\ Next /\ UNCHANGED <<recordVars, creationVars, deskVars>>
RecordsStep == At("records") /\ RecordsNext /\ UNCHANGED <<vars, creationVars, deskVars>>
CreationStep == At("creation") /\ CreationNext /\ UNCHANGED <<vars, recordVars, deskVars>>
OrdersStep == At("orders") /\ OrderNext /\ UNCHANGED <<vars, recordVars, creationVars>>
AssignmentStep == At("assignment") /\ AssignmentNext /\ UNCHANGED <<vars, recordVars, creationVars>>

ConsoleNext == StaffStep \/ RecordsStep \/ CreationStep \/ OrdersStep \/ AssignmentStep

consoleVars == <<at, vars, recordVars, creationVars, deskVars>>
ConsoleSpec == ConsoleInit /\ [][ConsoleNext]_consoleVars

-----------------------------------------------------------------------------
\* Pictures of the catalog are kept while a record shows them and go with the
\* form that nobody saved, edited or new.
CatalogPicturesAreKept == PicturesAreAccountedFor /\ CreatedPicturesAreKept
=============================================================================
