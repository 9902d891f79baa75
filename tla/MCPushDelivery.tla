--------------------------- MODULE MCPushDelivery ---------------------------
(* PushDelivery on small instances: one customer's notification and a device *)
(* another customer may take over.                                           *)
EXTENDS PushDelivery

CONSTANTS customer

RecipientOf == [n \in Notices |-> customer]
=============================================================================
