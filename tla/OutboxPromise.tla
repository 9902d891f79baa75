--------------------------- MODULE OutboxPromise ---------------------------
(***************************************************************************)
(* What the transactional outbox promises of a business event: once it is  *)
(* emitted, all its recipients are notified at once and only once, or      *)
(* nobody ever is and the event is kept as a dead letter; and one of the   *)
(* two happens in the end.                                                 *)
(***************************************************************************)
CONSTANTS
  Events,     \* business events
  Recipients  \* Recipients[e]: the users an event is about

VARIABLES
  fate,  \* fate[e]: what became of the event
  told   \* <<e, u>>: user u has an in-app notification of event e

vars == <<fate, told>>

NoticesOf(e) == {e} \X Recipients[e]

Init ==
  /\ fate = [e \in Events |-> "absent"]
  /\ told = {}

Emit(e) ==
  /\ fate[e] = "absent"
  /\ fate' = [fate EXCEPT ![e] = "open"]
  /\ UNCHANGED told

Notify(e) ==
  /\ fate[e] = "open"
  /\ fate' = [fate EXCEPT ![e] = "processed"]
  /\ told' = told \union NoticesOf(e)

Drop(e) ==
  /\ fate[e] = "open"
  /\ fate' = [fate EXCEPT ![e] = "dead"]
  /\ UNCHANGED told

Settle(e) == Notify(e) \/ Drop(e)

Next == \E e \in Events : Emit(e) \/ Settle(e)

SafeSpec == Init /\ [][Next]_vars

Spec == SafeSpec /\ \A e \in Events : WF_vars(Settle(e))
=============================================================================
