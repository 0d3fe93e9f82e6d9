--------------------------- MODULE MCProvisioning ---------------------------
(* BLE mode with two networks that work and one with a mistyped password. *)
EXTENDS Provisioning

CONSTANTS home, cafe, typo

TwoAndTypo == {home, cafe, typo}
HomeAndCafe == {home, cafe}
=============================================================================
