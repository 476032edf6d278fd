---------------------------- MODULE MCOnboarding ----------------------------
(* The UAV's code in one burst and in four, and another code in four.       *)
EXTENDS Onboarding

MCCaptures == {<<UavCode, 1>>, <<UavCode, 4>>, <<2, 4>>}
=============================================================================
