------------------------------- MODULE MCBle -------------------------------
(* One node, with a fault.                                                  *)
EXTENDS Ble
=============================================================================
