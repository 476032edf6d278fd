----------------------------- MODULE MCDelivery -----------------------------
(* One member and its cluster head.                                         *)
EXTENDS Delivery
=============================================================================
