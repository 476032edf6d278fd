---------------------------- MODULE MCTableLocks ----------------------------
(* A member of head h with two more neighbors and a table that holds two; a tick is 50 ms. *)
EXTENDS TableLocks
=============================================================================
