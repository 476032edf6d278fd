---------------------------- MODULE MCSuperframe ----------------------------
(* A head and two members; a tick stands for .5 to 4 s.                         *)
EXTENDS Superframe
=============================================================================
