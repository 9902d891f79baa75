--------------------------- MODULE MCPhoneScreens ---------------------------
(* PhoneScreens with two searches that find some of the same products.      *)
EXTENDS PhoneScreens, TLC

CONSTANTS beans, mills

TwoSearches == beans :> {1, 2, 3} @@ mills :> {2, 3}
=============================================================================
