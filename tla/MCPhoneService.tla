--------------------------- MODULE MCPhoneService ---------------------------
(* PhoneService with two brands of one model each.                          *)
EXTENDS PhoneService, TLC

CONSTANTS b1, b2, m1, m2

TwoBrands == m1 :> b1 @@ m2 :> b2
=============================================================================
