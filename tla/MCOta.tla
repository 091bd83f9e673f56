------------------------------- MODULE MCOta -------------------------------
(* Instances of Ota for TLC: an old image, a new one and one that crashes  *)
(* before it is confirmed; the BLE task and the HTTP task upgrade.         *)
EXTENDS Ota

CONSTANTS old, new, broken, ble, http
=============================================================================
