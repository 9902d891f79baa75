---------------------------- MODULE PhoneService ----------------------------
(***************************************************************************)
(* The service tab of the phone.  From its home the customer registers a   *)
(* machine, asks for service or follows a request; the three share no      *)
(* state of the phone (each has its own screens, and the draft, the photo  *)
(* and the cached request are kept apart), so that a behaviour here is one *)
(* of the three and stands for its part of every longer one.               *)
(***************************************************************************)
EXTENDS MachineRegistration, ServiceIntake, ServiceTracking

VARIABLE journey  \* the component this behaviour is about

serviceVars == <<journey, regVars, intakeVars, trackVars>>

ServiceInit ==
  /\ journey \in {"registering", "asking", "following"}
  /\ RegInit /\ IntakeInit
  /\ IF journey = "following" THEN TrackInit ELSE Init /\ PhoneInit

ServiceNext ==
  /\ UNCHANGED journey
  /\ \/ journey = "registering" /\ RegStep /\ UNCHANGED <<intakeVars, trackVars>>
     \/ journey = "asking" /\ IntakeStep /\ UNCHANGED <<regVars, trackVars>>
     \/ journey = "following" /\ TrackStep /\ UNCHANGED <<regVars, intakeVars>>

\* The screen that is open asks for the request every five seconds, and the API
\* answers; nothing else has to happen.
ServiceSpec ==
  /\ ServiceInit /\ [][ServiceNext]_serviceVars
  /\ WF_serviceVars(journey = "following" /\ Refresh /\ UNCHANGED <<journey, regVars, intakeVars>>)

\* Every variable of the three keeps the shape of what it stands for.
ServiceTypeOK == RegTypeOK /\ IntakeTypeOK /\ TrackTypeOK
=============================================================================
