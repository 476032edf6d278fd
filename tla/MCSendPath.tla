----------------------------- MODULE MCSendPath -----------------------------
(* The driver's queue is short enough to fill.                              *)
EXTENDS SendPath
=============================================================================
