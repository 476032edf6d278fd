---------------------------- MODULE MCMslgStore ----------------------------
(* The record store on a small partition, with two storing tasks (which are *)
(* interchangeable) and the state machine task.                             *)
EXTENDS MslgStore, TLC

Symmetry == Permutations(Producers)
============================================================================
